---- MODULE Spec2Model ----
(***************************************************************************)
(* BookmarkMind request orchestration layer: the RequestQueue of           *)
(* scripts/aiProcessor.js (priority queue, rate gate, retry with backoff), *)
(* the provider fallback orchestrator and the truncation batch splitter.   *)
(*                                                                         *)
(* JavaScript runs handlers to completion; an async function runs until    *)
(* its next await.  Every action below is one such run-to-completion       *)
(* stretch of the source.  The await of an already settled promise         *)
(* (RequestQueue._processQueue, line 146) resumes in the same macrotask,   *)
(* so only code that can run from the microtask queue or from the          *)
(* synchronous caller (enqueue, the continuation of a settled thunk) is    *)
(* interleaved there, and the clock does not advance across it.            *)
(***************************************************************************)
EXTENDS Integers, Sequences, FiniteSets, TLC

\* ------------------------------------------------------------------ bounds
MaxItems == 3          \* enqueue calls explored with succeeding thunks
MaxCapacityItems == 4  \* enqueue calls explored with a full queue and a retry
MaxRequeueItems == 3   \* enqueue calls explored with retried items waiting
MaxRetryItems == 2     \* enqueue calls explored with failing thunks
MaxTicks == 3          \* clock advances explored
TickMs == 30000        \* milliseconds per clock advance
RpmGemini == 1         \* rateLimits.gemini.rpm        (15 in the source)
RpmCerebras == 2       \* rateLimits.cerebras.rpm      (60 in the source)
RpmGroq == 1           \* rateLimits.groq.rpm          (30 in the source)
MaxQueueGemini == 2    \* rateLimits.gemini.maxQueueSize   (100 in the source)
MaxQueueCerebras == 3  \* rateLimits.cerebras.maxQueueSize (200 in the source)
MaxQueueGroq == 2      \* rateLimits.groq.maxQueueSize     (150 in the source)

\* ------------------------------------------------------- program constants
WindowMs == 60000
MinThrottleMs == 100
maxRetries == 3
baseDelay == 1000
maxDelay == 30000
jitterPermille == 300

Providers == {"gemini", "cerebras", "groq"}
PriorityNames == {"high", "normal", "low"}

\* this.rateLimits
rateLimits(provider) ==
  CASE provider = "gemini"   -> [rpm |-> RpmGemini,   maxQueueSize |-> MaxQueueGemini]
    [] provider = "cerebras" -> [rpm |-> RpmCerebras, maxQueueSize |-> MaxQueueCerebras]
    [] provider = "groq"     -> [rpm |-> RpmGroq,     maxQueueSize |-> MaxQueueGroq]

\* this.priorities
priorities(name) ==
  CASE name = "high" -> 0 [] name = "normal" -> 1 [] name = "low" -> 2

\* the expression this.priorities[priority] || this.priorities.normal :
\* a falsy left operand (0, the value of "high") yields the right operand
ItemPriority(name) ==
  IF priorities(name) = 0 THEN priorities("normal") ELSE priorities(name)

\* --------------------------------------------------------- error messages
\* An error message is a sequence of text fragments; String.includes is
\* containment of a fragment, String.toLowerCase maps fragment by fragment.
ToLowerCase(frag) ==
  CASE frag = "Invalid API key" -> "invalid api key"
    [] frag = "Service Unavailable" -> "service unavailable"
    [] frag = "ECONNRESET" -> "econnreset"
    [] frag = "ETIMEDOUT" -> "etimedout"
    [] frag = "Unauthorized" -> "unauthorized"
    [] frag = "Rate Limit" -> "rate limit"
    [] frag = "API key not configured" -> "api key not configured"
    [] frag = "AI categorization timeout" -> "ai categorization timeout"
    [] frag = "Categorization failed" -> "categorization failed"
    [] OTHER -> frag

LowerMessage(msg) == [i \in DOMAIN msg |-> ToLowerCase(msg[i])]

\* the fragments that hold a shorter pattern as a substring
SubstringOf ==
  {<<"fetch", "failed to fetch">>, <<"invalid", "invalid_api_key">>,
   <<"invalid", "invalid api key">>, <<"api key", "invalid api key">>,
   <<"api key", "api key not configured">>, <<"timeout", "ai categorization timeout">>}

Within(pattern, frag) == pattern = frag \/ <<pattern, frag>> \in SubstringOf

Includes(msg, pattern) == \E i \in DOMAIN msg : Within(pattern, msg[i])

retryableErrors ==
  {"rate limit", "timeout", "network", "429", "500", "502", "503", "504",
   "ECONNRESET", "ETIMEDOUT"}

\* What a request thunk does when invoked: "ok" resolves, the others throw.
ThunkKinds == {"ok", "e503", "e401"}

ThunkError(kind) ==
  CASE kind = "e503" -> <<"503", "Service Unavailable">>
    [] kind = "e401" -> <<"401", "Invalid API key">>
    [] OTHER -> <<>>

\* ------------------------------------------------------------------ state
VARIABLES
  now,             \* Date.now()
  queue,           \* this.queue: item ids, head first
  items,           \* every QueueItem ever constructed, by id
  processing,      \* this.processing
  loop,            \* where _processQueue is suspended
  inflight,        \* suspended _executeRequest calls
  requestHistory,  \* this.requestHistory: timestamp -> provider
  metrics          \* this.metrics counters

queueVars == <<now, queue, items, processing, loop, inflight, requestHistory,
               metrics>>

\* loop.seen is the window count the admission check of loop.item was made on
IdleLoop == [pc |-> "idle", item |-> 0, ok |-> FALSE, seen |-> 0, wake |-> 0]

\* ------------------------------------------------------------ rate limiter
RecentRequests(history, provider, t) ==
  {ts \in DOMAIN history : ts >= t - WindowMs /\ history[ts] = provider}

\* an admission check that lets one request too many through
CanProcessAtLimit(history, provider, t) ==
  Cardinality(RecentRequests(history, provider, t)) <= rateLimits(provider).rpm

\* _canProcessRequest
CanProcessRequest(history, provider, t) ==
  Cardinality(RecentRequests(history, provider, t)) < rateLimits(provider).rpm

Min(S) == CHOOSE x \in S : \A y \in S : x <= y
Max2(a, b) == IF a >= b THEN a ELSE b
Min2(a, b) == IF a <= b THEN a ELSE b

\* _calculateThrottleDelay
CalculateThrottleDelay(history, provider, t) ==
  LET recent == RecentRequests(history, provider, t) IN
  IF recent = {} THEN 0
  ELSE Max2(MinThrottleMs, (WindowMs - (t - Min(recent))) + MinThrottleMs)

\* _shouldRetry
ShouldRetry(item, msg) ==
  IF item.retries >= maxRetries THEN FALSE
  ELSE \E pattern \in retryableErrors : Includes(LowerMessage(msg), pattern)

Pow2(n) == IF n <= 0 THEN 1 ELSE 2 ^ n

\* a delay growing by retryCount instead of doubling
LinearDelay(retryCount) == Min2(baseDelay * retryCount, maxDelay)

\* the unjittered delay of _calculateRetryDelay
ExponentialDelay(retryCount) == Min2(baseDelay * Pow2(retryCount - 1), maxDelay)

\* _calculateRetryDelay; rnd is Math.random() in thousandths
CalculateRetryDelay(retryCount, rnd) ==
  LET exponentialDelay == ExponentialDelay(retryCount)
      jitter == (((exponentialDelay * jitterPermille) \div 1000) * (2 * rnd - 1000)) \div 1000
  IN Max2(0, exponentialDelay + jitter)

RandomDraws == {0, 999}

\* the documented circuit breaker configuration of the RequestQueue
MaxBreakerItems == 11  \* enqueue calls explored against a failing provider
MaxBreakerCallers == 3 \* callers awaiting an enqueue at a time
failureThreshold == 5
volumeThreshold == 10

\* ------------------------------------------------------------- drain loop
\* Array.prototype.sort by priority: stable insertion of the pushed item
RECURSIVE SortByPriority(_, _)
SortByPriority(q, its) ==
  IF Len(q) <= 1 THEN q
  ELSE LET m == Min({its[q[i]].priority : i \in DOMAIN q})
           first == Min({i \in DOMAIN q : its[q[i]].priority = m})
           rest == [i \in 1..(Len(q) - 1) |-> IF i < first THEN q[i] ELSE q[i + 1]]
       IN <<q[first]>> \o SortByPriority(rest, its)

\* _processQueue lines 141-146: peek the head and start the admission check
LoopPeek(q, its, history) ==
  [pc |-> "gap", item |-> q[1],
   ok |-> CanProcessRequest(history, its[q[1]].provider, now),
   seen |-> Cardinality(RecentRequests(history, its[q[1]].provider, now)),
   wake |-> 0]

\* the while condition of _processQueue, re-evaluated by a running loop
LoopContinue(q, its, history) ==
  IF Len(q) > 0 THEN [processing |-> TRUE, loop |-> LoopPeek(q, its, history)]
  ELSE [processing |-> FALSE, loop |-> IdleLoop]

\* a call of _processQueue(): returns at once when the loop is active
ProcessQueue(q, its, history) ==
  IF processing \/ Len(q) = 0 THEN [processing |-> processing, loop |-> loop]
  ELSE [processing |-> TRUE, loop |-> LoopPeek(q, its, history)]

\* a capacity test that lets one item too many in
QueueOverFull(len, provider) == len > rateLimits(provider).maxQueueSize

\* line 98: this.queue.length >= limits.maxQueueSize
QueueFull(len, provider) == len >= rateLimits(provider).maxQueueSize

\* enqueue(request, provider, priority)
Enqueue(kind, provider, priority) ==
  /\ IF provider \notin Providers
     THEN \* line 95: throws before any state is touched
          UNCHANGED queueVars
     ELSE IF QueueFull(Len(queue), provider)
     THEN /\ metrics' = [metrics EXCEPT !.throttledRequests = @ + 1,
                                        !.throttled[provider] = @ + 1]
          /\ UNCHANGED <<now, queue, items, processing, loop, inflight,
                         requestHistory>>
     ELSE LET id == Len(items) + 1
              queueItem == [provider |-> provider,
                            priority |-> ItemPriority(priority),
                            priorityName |-> priority,
                            retries |-> 0,
                            request |-> kind,
                            promise |-> "pending",
                            error |-> <<>>,
                            invoked |-> 0]
              its == Append(items, queueItem)
              q == SortByPriority(Append(queue, id), its)
              pq == ProcessQueue(q, its, requestHistory)
          IN /\ items' = its
             /\ queue' = q
             /\ metrics' = [metrics EXCEPT !.queueDepth = Len(q),
                                           !.totalRequests = @ + 1]
             /\ processing' = pq.processing
             /\ loop' = pq.loop
             /\ UNCHANGED <<now, inflight, requestHistory>>

\* _processQueue resumed after `await this._canProcessRequest(...)`
LoopResume ==
  /\ loop.pc = "gap"
  /\ IF loop.ok
     THEN \* lines 147-156: shift, then _executeRequest(item) up to its await
          LET id == loop.item
              q == Tail(queue)
              its == [items EXCEPT ![id].invoked = @ + 1]
              lc == LoopContinue(q, its, requestHistory)
          IN /\ queue' = q
             /\ items' = its
             /\ metrics' = [metrics EXCEPT !.queueDepth = Len(q),
                                           !.requests[items[id].provider] = @ + 1]
             /\ inflight' = inflight \cup
                  {[id |-> id, attempt |-> its[id].invoked, stage |-> "running", wake |-> 0]}
             /\ processing' = lc.processing
             /\ loop' = lc.loop
             /\ UNCHANGED <<now, requestHistory>>
     ELSE \* lines 158-160: suspend for the throttle delay
          /\ loop' = [pc |-> "sleep", item |-> loop.item, ok |-> FALSE,
                      seen |-> loop.seen,
                      wake |-> now + CalculateThrottleDelay(
                                 requestHistory, items[loop.item].provider, now)]
          /\ UNCHANGED <<now, queue, items, processing, inflight, requestHistory,
                         metrics>>

\* the throttle timer of line 160 fires: the while condition is re-evaluated
LoopWake ==
  /\ loop.pc = "sleep"
  /\ now >= loop.wake
  /\ LET lc == LoopContinue(queue, items, requestHistory)
     IN /\ processing' = lc.processing
        /\ loop' = lc.loop
  /\ UNCHANGED <<now, queue, items, inflight, requestHistory, metrics>>

\* requestHistory.set(Date.now(), provider)
HistorySet(history, t, provider) ==
  [ts \in DOMAIN history \cup {t} |-> IF ts = t THEN provider ELSE history[ts]]

\* _executeRequest resumed after `await item.request()`: lines 206-242
ExecuteSettle(e, rnd) ==
  /\ e \in inflight
  /\ e.stage = "running"
  /\ LET item == items[e.id]
         msg == ThunkError(item.request)
     IN IF item.request = "ok"
        THEN LET history == HistorySet(requestHistory, now, item.provider)
                 its == [items EXCEPT ![e.id].promise =
                           IF @ = "pending" THEN "resolved" ELSE @]
                 pq == ProcessQueue(queue, its, history)
             IN /\ requestHistory' = history
                /\ items' = its
                /\ metrics' = [metrics EXCEPT !.successfulRequests = @ + 1,
                                              !.successful[item.provider] = @ + 1]
                /\ inflight' = inflight \ {e}
                /\ processing' = pq.processing
                /\ loop' = pq.loop
                /\ UNCHANGED <<now, queue>>
        ELSE IF ShouldRetry(item, msg)
        THEN \* lines 225-231: count the retry and wait for the backoff
             /\ items' = [items EXCEPT ![e.id].retries = @ + 1]
             /\ metrics' = [metrics EXCEPT !.retriedRequests = @ + 1]
             /\ inflight' = (inflight \ {e}) \cup
                  {[e EXCEPT !.stage = "backoff",
                             !.wake = now + CalculateRetryDelay(item.retries + 1, rnd)]}
             /\ UNCHANGED <<now, queue, processing, loop, requestHistory>>
        ELSE \* lines 236-238, 242
             LET its == [items EXCEPT ![e.id].promise =
                           IF @ = "pending" THEN "rejected" ELSE @,
                                      ![e.id].error =
                           IF item.promise = "pending" THEN msg ELSE @]
                 pq == ProcessQueue(queue, its, requestHistory)
             IN /\ items' = its
                /\ metrics' = [metrics EXCEPT !.failedRequests = @ + 1,
                                              !.failed[item.provider] = @ + 1]
                /\ inflight' = inflight \ {e}
                /\ processing' = pq.processing
                /\ loop' = pq.loop
                /\ UNCHANGED <<now, queue, requestHistory>>

\* a re-insertion with push instead of unshift
RetryRequeueAtBack(e) ==
  /\ e \in inflight
  /\ e.stage = "backoff"
  /\ loop.pc # "gap"
  /\ now >= e.wake
  /\ LET q == Append(queue, e.id)
         pq == ProcessQueue(q, items, requestHistory)
     IN /\ queue' = q
        /\ metrics' = [metrics EXCEPT !.queueDepth = Len(q)]
        /\ inflight' = inflight \ {e}
        /\ processing' = pq.processing
        /\ loop' = pq.loop
  /\ UNCHANGED <<now, items, requestHistory>>

\* _executeRequest resumed after `await this._delay(delay)`: lines 233-234, 242
RetryRequeue(e) ==
  /\ e \in inflight
  /\ e.stage = "backoff"
  /\ loop.pc # "gap"
  /\ now >= e.wake
  /\ LET q == <<e.id>> \o queue
         pq == ProcessQueue(q, items, requestHistory)
     IN /\ queue' = q
        /\ metrics' = [metrics EXCEPT !.queueDepth = Len(q)]
        /\ inflight' = inflight \ {e}
        /\ processing' = pq.processing
        /\ loop' = pq.loop
  /\ UNCHANGED <<now, items, requestHistory>>

\* _startMetricsCleanup: the interval callback
MetricsCleanup ==
  /\ loop.pc # "gap"
  /\ \E ts \in DOMAIN requestHistory : ts < now - WindowMs
  /\ requestHistory' = [ts \in {t \in DOMAIN requestHistory : ~(t < now - WindowMs)}
                          |-> requestHistory[ts]]
  /\ UNCHANGED <<now, queue, items, processing, loop, inflight, metrics>>

\* the clock; it does not advance while the loop awaits a settled promise
Tick ==
  /\ loop.pc # "gap"
  /\ now + TickMs <= MaxTicks * TickMs
  /\ now' = now + TickMs
  /\ UNCHANGED <<queue, items, processing, loop, inflight, requestHistory,
                 metrics>>

ZeroByProvider == [p \in Providers |-> 0]

\* new RequestQueue()
QueueInit ==
  /\ now = 0
  /\ queue = <<>>
  /\ items = <<>>
  /\ processing = FALSE
  /\ loop = IdleLoop
  /\ inflight = {}
  /\ requestHistory = <<>>
  /\ metrics = [queueDepth |-> 0, throttledRequests |-> 0, totalRequests |-> 0,
                successfulRequests |-> 0, failedRequests |-> 0, retriedRequests |-> 0,
                requests |-> ZeroByProvider, successful |-> ZeroByProvider,
                failed |-> ZeroByProvider, throttled |-> ZeroByProvider]

\* ------------------------------------------- provider fallback for a batch
\* this.geminiModels, this.cerebrasModels, this.groqModels (paramCount 0 and
\* sizeCategory "" stand for an absent property)
GModel(name, cat) == [name |-> name, provider |-> "gemini", paramCount |-> 0, sizeCategory |-> cat]
PModel(name, provider, count) ==
  [name |-> name, provider |-> provider, paramCount |-> count, sizeCategory |-> ""]

geminiModels ==
  << GModel("gemini-2.5-pro", "ultra"),
     GModel("gemini-2.5-flash-preview-09-2025", "large"),
     GModel("gemini-2.5-flash", "large"),
     GModel("gemini-2.5-flash-image", "medium"),
     GModel("gemini-2.0-flash", "medium"),
     GModel("gemini-2.5-flash-lite-preview-09-2025", "small"),
     GModel("gemini-2.5-flash-lite", "small") >>

cerebrasModels ==
  << PModel("gpt-oss-120b", "cerebras", 120),
     PModel("llama-3.3-70b", "cerebras", 70),
     PModel("qwen-3-32b", "cerebras", 32),
     PModel("llama3.1-8b", "cerebras", 8) >>

groqModels ==
  << PModel("openai/gpt-oss-120b", "groq", 120),
     PModel("llama-3.3-70b-versatile", "groq", 70),
     PModel("qwen/qwen3-32b", "groq", 32),
     PModel("openai/gpt-oss-20b", "groq", 20),
     PModel("llama-3.1-8b-instant", "groq", 8) >>

\* const sizeOrder = { ultra: 1000, large: 100, medium: 50, small: 10 }
sizeOrder(cat) ==
  CASE cat = "ultra" -> 1000 [] cat = "large" -> 100 [] cat = "medium" -> 50
    [] cat = "small" -> 10 [] OTHER -> 0

\* a.paramCount || sizeOrder[a.sizeCategory] || 0
ModelSize(m) == IF m.paramCount # 0 THEN m.paramCount ELSE sizeOrder(m.sizeCategory)

Max(S) == CHOOSE x \in S : \A y \in S : x >= y

\* a sort that puts the last of several equally large models first
RECURSIVE SortBySizeLastFirst(_)
SortBySizeLastFirst(list) ==
  IF Len(list) <= 1 THEN list
  ELSE LET m == Max({ModelSize(list[k]) : k \in DOMAIN list})
           first == Max({k \in DOMAIN list : ModelSize(list[k]) = m})
           rest == [k \in 1..(Len(list) - 1) |-> IF k < first THEN list[k] ELSE list[k + 1]]
       IN <<list[first]>> \o SortBySizeLastFirst(rest)

\* allModels.sort((a, b) => bSize - aSize): stable, largest first
RECURSIVE SortBySize(_)
SortBySize(list) ==
  IF Len(list) <= 1 THEN list
  ELSE LET m == Max({ModelSize(list[k]) : k \in DOMAIN list})
           first == Min({k \in DOMAIN list : ModelSize(list[k]) = m})
           rest == [k \in 1..(Len(list) - 1) |-> IF k < first THEN list[k] ELSE list[k + 1]]
       IN <<list[first]>> \o SortBySize(rest)

\* lines 2466-2491: the candidates of the providers that have a key
AllModels(k) ==
  SortBySize((IF k.gemini THEN geminiModels ELSE <<>>)
             \o (IF k.cerebras THEN cerebrasModels ELSE <<>>)
             \o (IF k.groq THEN groqModels ELSE <<>>))

\* How one candidate call (_processWithGemini, _processWithCerebras,
\* _processWithGroq) ends: a parsed result, or the error it throws.
OutcomeKinds == {"ok", "e429", "e503", "e401", "e403", "e400", "truncated"}
RetryableKinds == {"e429", "e503"}
AuthKinds == {"e401", "e403", "e400"}

\* kind and origin tell which failure of which candidate an error object is
NoError == [message |-> <<>>, isTruncation |-> FALSE, kind |-> "", origin |-> 0]

Status(kind) ==
  CASE kind = "e429" -> "429" [] kind = "e503" -> "503" [] kind = "e401" -> "401"
    [] kind = "e403" -> "403" [] kind = "e400" -> "400" [] OTHER -> ""

ProviderLabel(provider) ==
  CASE provider = "cerebras" -> "Cerebras" [] provider = "groq" -> "Groq" [] OTHER -> "Gemini"

\* the message of the error a candidate call throws
CandidateMessage(provider, kind) ==
  IF kind = "truncated" THEN <<"JSON truncation detected: ", "Unexpected end of JSON input">>
  ELSE IF provider = "gemini"
  THEN CASE kind = "e401" -> <<"Invalid API key", ". Please check your Gemini API key in settings.">>
         [] kind = "e403" -> <<"API access denied", ". Please check your API key permissions.">>
         [] kind = "e400" -> <<"Bad request", ". Please check your API key format.">>
         [] OTHER -> <<"Gemini API request failed: ", Status(kind)>>
  ELSE CASE kind = "e401" -> <<"Invalid ", ProviderLabel(provider), " API key", ". Please check your API key">>
         [] kind = "e403" -> <<ProviderLabel(provider), " ", "API access denied", ". Please check your API key permissions.">>
         [] kind = "e400" -> <<"Bad request", " to ", ProviderLabel(provider), " API. Please check your configuration.">>
         [] kind = "e429" -> <<ProviderLabel(provider), " rate limit exceeded after ", "4", " attempts">>
         [] OTHER -> <<ProviderLabel(provider), " server error (", Status(kind), ") after ", "4", " attempts">>

CandidateError(provider, kind, origin) ==
  [message |-> CandidateMessage(provider, kind),
   isTruncation |-> (kind = "truncated"),
   kind |-> kind,
   origin |-> origin]

\* _parseResponse on an array of m elements: element k is mapped to
\* bookmarkId = batch[k].id
ParseResult(b, m) == [k \in 1..m |-> b[k]]

\* how many elements a model's answer to a batch of n may hold
ResponseLengths(n) == {m \in {n - 1, n} : m >= 0}

VARIABLES
  keys,            \* which of apiKey, cerebrasApiKey, groqApiKey are set
  batch,           \* the batch: bookmark ids in batch order
  allModels,       \* the sorted candidate list built by the orchestrator
  fbPc,            \* where _processBatchWithProviderFallback is suspended
  fbIndex,         \* the loop variable i, counted from 1
  fbLastError,     \* lastError
  fbCall,          \* the outstanding candidate request
  fbRequested,     \* the candidates requested with the whole batch, in order
  fbResult,        \* what the orchestrator returned or threw
  splitStack,      \* the active calls of _retryWithSmallerBatches, innermost last
  fbSeen           \* what the candidate calls did so far

batchVars == <<keys, batch, allModels, fbPc, fbIndex, fbLastError, fbCall, fbRequested,
               fbResult, splitStack, fbSeen>>

NoCall == [model |-> "", provider |-> "", batch |-> <<>>]
CallOf(model, b) == [model |-> model.name, provider |-> model.provider, batch |-> b]
NoResult == [kind |-> "none", results |-> <<>>, message |-> <<>>]

\* a result test that never accepts
ResultFalsy(result) == FALSE

\* the `if (result)` test of line 2548: an array is truthy
ResultTruthy(result) == TRUE

\* a loop condition that stops one candidate early
HasEarlierCandidate(i, n) == i < n

\* the loop condition of line 2507
HasCandidate(i, n) == i <= n

\* lines 2595-2599
ExhaustedError(lastError) ==
  [kind |-> "thrown", results |-> <<>>,
   message |-> <<"All AI providers exhausted. Last error: ">>
               \o (IF lastError = NoError THEN <<"undefined">> ELSE lastError.message)]

\* a split size rounded down
SplitFloor(n) == n \div 2

\* const splitSize = Math.ceil(batch.length / 2)
SplitSize(n) == (n + 1) \div 2

\* batch.slice(i, i + splitSize), i counted from 0
SubBatch(frame) ==
  SubSeq(frame.batch, frame.i + 1,
         Min2(frame.i + SplitSize(Len(frame.batch)), Len(frame.batch)))

NewFrame(b, model) == [batch |-> b, i |-> 0, results |-> <<>>, model |-> model]

\* _retryWithSmallerBatches after a sub-batch is done (lines 3806-3815): wait
\* before the next sub-batch, or return the results to the caller, which is
\* the orchestrator or an outer call that pushes them and goes on likewise
RECURSIVE SplitAdvance(_)
SplitAdvance(stack) ==
  LET top == stack[Len(stack)]
      size == SplitSize(Len(top.batch))
  IN IF top.i + size < Len(top.batch)
     THEN [pc |-> "s_delay", stack |-> stack, results |-> <<>>]
     ELSE IF Len(stack) = 1
     THEN [pc |-> "done", stack |-> <<>>, results |-> top.results]
     ELSE LET outer == stack[Len(stack) - 1]
              merged == [outer EXCEPT !.results = @ \o top.results]
          IN SplitAdvance(SubSeq(stack, 1, Len(stack) - 2) \o <<merged>>)

\* _processBatchWithProviderFallback is called: lines 2455-2523, or 2595
FallbackCall ==
  /\ fbPc = "start"
  /\ LET all == AllModels(keys) IN
     /\ allModels' = all
     /\ IF HasCandidate(1, Len(all))
        THEN /\ fbPc' = "wait"
             /\ fbCall' = CallOf(all[1], batch)
             /\ fbRequested' = <<[name |-> all[1].name, provider |-> all[1].provider]>>
             /\ fbResult' = fbResult
        ELSE /\ fbPc' = "failed"
             /\ fbResult' = ExhaustedError(fbLastError)
             /\ UNCHANGED <<fbCall, fbRequested>>
  /\ UNCHANGED <<keys, batch, fbIndex, fbLastError, splitStack, fbSeen>>

\* the next iteration of the loop of line 2507
FallbackIterate(i, lastError) ==
  LET all == allModels IN
  IF HasCandidate(i, Len(all))
  THEN /\ fbPc' = "wait"
       /\ fbIndex' = i
       /\ fbCall' = CallOf(all[i], batch)
       /\ fbRequested' = Append(fbRequested, [name |-> all[i].name, provider |-> all[i].provider])
       /\ fbResult' = fbResult
  ELSE /\ fbPc' = "failed"
       /\ fbIndex' = i
       /\ fbCall' = NoCall
       /\ fbRequested' = fbRequested
       /\ fbResult' = ExhaustedError(lastError)

\* the awaited candidate call settles: lines 2548-2592
FallbackSettle(kind, m) ==
  /\ fbPc = "wait"
  /\ m \in ResponseLengths(Len(batch))
  /\ LET all == allModels
         model == all[fbIndex]
         error == CandidateError(model.provider, kind, fbIndex)
     IN
     IF kind = "ok"
     THEN /\ fbSeen' = [fbSeen EXCEPT !.okAt = IF @ = 0 THEN fbIndex ELSE @,
                                      !.okResult = IF fbSeen.okAt = 0
                                                   THEN ParseResult(batch, m) ELSE @]
          /\ IF ResultTruthy(ParseResult(batch, m))
             THEN /\ fbPc' = "done"
                  /\ fbResult' = [kind |-> "returned", results |-> ParseResult(batch, m),
                                  message |-> <<>>]
                  /\ fbCall' = NoCall
                  /\ UNCHANGED <<fbIndex, fbRequested>>
             ELSE FallbackIterate(fbIndex + 1, fbLastError)
          /\ UNCHANGED <<keys, batch, allModels, fbLastError, splitStack>>
     ELSE /\ fbLastError' = error
          /\ fbSeen' = [fbSeen EXCEPT !.onlyRetryable = @ /\ kind \in RetryableKinds,
                                      !.thrown = error]
          /\ IF error.isTruncation /\ Len(batch) > 1
             THEN \* lines 2565-2575 and 3734-3759
                  LET frame == NewFrame(batch, model) IN
                  /\ splitStack' = <<frame>>
                  /\ fbPc' = "s_wait"
                  /\ fbCall' = CallOf(frame.model, SubBatch(frame))
                  /\ UNCHANGED <<fbIndex, fbRequested, fbResult>>
             ELSE IF fbIndex < Len(all)
             THEN \* lines 2589-2591
                  /\ fbPc' = "delay"
                  /\ fbCall' = NoCall
                  /\ UNCHANGED <<fbIndex, fbRequested, fbResult, splitStack>>
             ELSE /\ FallbackIterate(fbIndex + 1, error)
                  /\ UNCHANGED splitStack
          /\ UNCHANGED <<keys, batch, allModels>>

\* the 1000 ms timer of line 2590 fires
FallbackDelayDone ==
  /\ fbPc = "delay"
  /\ FallbackIterate(fbIndex + 1, fbLastError)
  /\ UNCHANGED <<keys, batch, allModels, fbLastError, splitStack, fbSeen>>

\* a sub-batch call of _retryWithSmallerBatches settles: lines 3784-3815
SplitSettle(kind, m) ==
  /\ fbPc = "s_wait"
  /\ LET top == splitStack[Len(splitStack)]
         sub == SubBatch(top)
     IN
     /\ m \in ResponseLengths(Len(sub))
     /\ IF kind = "ok"
        THEN LET pushed == [splitStack EXCEPT ![Len(splitStack)].results =
                              @ \o ParseResult(sub, m)]
                 adv == SplitAdvance(pushed)
             IN /\ splitStack' = adv.stack
                /\ fbPc' = adv.pc
                /\ fbCall' = NoCall
                /\ fbResult' = IF adv.pc = "done"
                               THEN [kind |-> "returned", results |-> adv.results,
                                     message |-> <<>>]
                               ELSE fbResult
                /\ fbSeen' = [fbSeen EXCEPT !.returned = @ \cup {sub[k] : k \in 1..m}]
        ELSE IF kind = "truncated" /\ Len(sub) > 1
        THEN LET frame == NewFrame(sub, top.model) IN
             /\ splitStack' = Append(splitStack, frame)
             /\ fbPc' = "s_wait"
             /\ fbCall' = CallOf(frame.model, SubBatch(frame))
             /\ UNCHANGED <<fbResult, fbSeen>>
        ELSE \* line 3802: the error leaves every active call
             /\ splitStack' = <<>>
             /\ fbPc' = "failed"
             /\ fbCall' = NoCall
             /\ fbResult' = [kind |-> "thrown", results |-> <<>>,
                             message |-> CandidateMessage(top.model.provider, kind)]
             /\ UNCHANGED fbSeen
  /\ UNCHANGED <<keys, batch, allModels, fbIndex, fbLastError, fbRequested>>

\* the 500 ms timer of line 3808 fires: the next sub-batch is requested
SplitDelayDone ==
  /\ fbPc = "s_delay"
  /\ LET top == splitStack[Len(splitStack)]
         next == [top EXCEPT !.i = @ + SplitSize(Len(top.batch))]
     IN /\ splitStack' = [splitStack EXCEPT ![Len(splitStack)] = next]
        /\ fbCall' = CallOf(next.model, SubBatch(next))
        /\ fbPc' = "s_wait"
  /\ UNCHANGED <<keys, batch, allModels, fbIndex, fbLastError, fbRequested, fbResult, fbSeen>>

MaxBatch == 3

NothingSeen == [okAt |-> 0, okResult |-> <<>>, onlyRetryable |-> TRUE,
                thrown |-> NoError, returned |-> {}]

BatchInit ==
  /\ keys \in [gemini : BOOLEAN, cerebras : BOOLEAN, groq : BOOLEAN]
  /\ \E n \in 1..MaxBatch : batch = [k \in 1..n |-> k]
  /\ allModels = <<>>
  /\ fbPc = "start"
  /\ fbIndex = 1
  /\ fbLastError = NoError
  /\ fbCall = NoCall
  /\ fbRequested = <<>>
  /\ fbResult = NoResult
  /\ splitStack = <<>>
  /\ fbSeen = NothingSeen

\* ---------------------------------------------------------- ErrorAggregator
MaxAdds == 3           \* add calls explored
AggTickMs == 10000     \* milliseconds per clock advance
MaxAggTicks == 10      \* clock advances explored

errorWindow == 60000
cleanupInterval == 30000

ErrorKeys == {"k1", "k2"}
Contexts == {"c1", "c2"}

VARIABLES
  aggClock,        \* Date.now() as the aggregator sees it
  errors,          \* this.errors: key -> record
  nextSweep,       \* when the setInterval callback is due next
  adds,            \* add calls made so far
  addReturn        \* the last add call and the value it returned

aggVars == <<aggClock, errors, nextSweep, adds, addReturn>>

NoAdd == [key |-> "", context |-> "", value |-> FALSE]

\* the record add stores for a new key (lines 40-47)
NewRecord(context, t) ==
  [count |-> 1, firstOccurrence |-> t, lastOccurrence |-> t, contexts |-> <<context>>]

\* a duplicate that is counted but leaves lastOccurrence alone
RecordDuplicateStale(rec, context, t) ==
  [rec EXCEPT !.count = @ + 1, !.contexts = Append(@, context)]

\* what add does to an existing record (lines 34-36)
RecordDuplicate(rec, context, t) ==
  [rec EXCEPT !.count = @ + 1, !.lastOccurrence = t, !.contexts = Append(@, context)]

\* add(errorKey, error, context)
AggAdd(key, context) ==
  /\ adds < MaxAdds
  /\ adds' = adds + 1
  /\ IF key \in DOMAIN errors
     THEN /\ errors' = [errors EXCEPT ![key] = RecordDuplicate(@, context, aggClock)]
          /\ addReturn' = [key |-> key, context |-> context, value |-> FALSE]
     ELSE /\ errors' = [k \in DOMAIN errors \cup {key} |->
                          IF k = key THEN NewRecord(context, aggClock) ELSE errors[k]]
          /\ addReturn' = [key |-> key, context |-> context, value |-> TRUE]
  /\ UNCHANGED <<aggClock, nextSweep>>

\* a sweep that spares the records seen within the window
AggSweepByLastOccurrence ==
  /\ aggClock >= nextSweep
  /\ errors' = [k \in {x \in DOMAIN errors :
                         ~(aggClock - errors[x].lastOccurrence > errorWindow)}
                  |-> errors[k]]
  /\ nextSweep' = nextSweep + cleanupInterval
  /\ UNCHANGED <<aggClock, adds, addReturn>>

\* the setInterval callback of _startCleanup
AggSweep ==
  /\ aggClock >= nextSweep
  /\ errors' = [k \in {x \in DOMAIN errors :
                         ~(aggClock - errors[x].firstOccurrence > errorWindow)}
                  |-> errors[k]]
  /\ nextSweep' = nextSweep + cleanupInterval
  /\ UNCHANGED <<aggClock, adds, addReturn>>

\* the clock; a due sweep runs before time goes on
AggTick ==
  /\ aggClock < nextSweep
  /\ aggClock + AggTickMs <= MaxAggTicks * AggTickMs
  /\ aggClock' = aggClock + AggTickMs
  /\ UNCHANGED <<errors, nextSweep, adds, addReturn>>

\* getSummary()
GetSummary == {[key |-> k, count |-> errors[k].count, contexts |-> errors[k].contexts] :
                 k \in DOMAIN errors}

\* new ErrorAggregator()
AggInit ==
  /\ aggClock = 0
  /\ errors = <<>>
  /\ nextSweep = cleanupInterval
  /\ adds = 0
  /\ addReturn = NoAdd

\* ------------------------------------------------- error classification
\* ContextError._categorizeError of part_000; the combined message is the
\* lowercased message, a space and the lowercased original message
CategorizeError(message, originalMessage) ==
  LET c == LowerMessage(message) \o <<" ">> \o LowerMessage(originalMessage)
      has(pattern) == Includes(c, pattern)
  IN IF has("network") \/ has("fetch") \/ has("connection") \/ has("econnreset")
        \/ has("failed to fetch")
     THEN "network"
     ELSE IF has("api key") \/ has("unauthorized") \/ has("authentication")
        \/ has("invalid_api_key") \/ has("401")
     THEN "api_key"
     ELSE IF has("rate limit") \/ has("429") \/ has("quota")
        \/ has("resource_exhausted") \/ has("too many requests")
     THEN "rate_limit"
     ELSE IF has("permission") \/ has("forbidden") \/ has("403")
     THEN "permission"
     ELSE IF has("not found") \/ has("404") \/ has("does not exist")
     THEN "not_found"
     ELSE IF has("invalid") \/ has("malformed") \/ has("parse") \/ has("400")
        \/ has("bad request")
     THEN "invalid_data"
     ELSE IF has("timeout") \/ has("timed out") \/ has("etimedout") \/ has("deadline")
     THEN "timeout"
     ELSE IF has("500") \/ has("502") \/ has("503") \/ has("504")
        \/ has("server error") \/ has("service unavailable")
     THEN "server_error"
     ELSE "unknown"

\* ContextError._categorizeError of scripts/bookmarkService.js
ServiceCategorizeError(message, originalMessage) ==
  LET c == LowerMessage(message) \o <<" ">> \o LowerMessage(originalMessage)
      has(pattern) == Includes(c, pattern)
  IN IF has("network") \/ has("fetch") \/ has("connection") \/ has("econnreset")
     THEN "network"
     ELSE IF has("api key") \/ has("unauthorized") \/ has("authentication")
        \/ has("invalid_api_key")
     THEN "api_key"
     ELSE IF has("rate limit") \/ has("429") \/ has("quota")
        \/ has("resource_exhausted")
     THEN "rate_limit"
     ELSE IF has("permission") \/ has("forbidden") \/ has("403")
     THEN "permission"
     ELSE IF has("not found") \/ has("404") \/ has("does not exist")
     THEN "not_found"
     ELSE IF has("invalid") \/ has("malformed") \/ has("parse") \/ has("400")
     THEN "invalid_data"
     ELSE IF has("timeout") \/ has("timed out") \/ has("etimedout")
     THEN "timeout"
     ELSE "unknown"

\* ------------------------------------------------------ function probes
MaxRetryCount == 6     \* retryCount values explored
RandomStep == 50       \* spacing of the Math.random() draws explored, in thousandths

\* Math.random() draws, in thousandths
RandomGrid == {r \in 0..999 : r % RandomStep = 0} \cup {999}

\* messages of thrown errors, as fragments
RetryProbeFragments ==
  {"429", "rate limit", "Rate Limit", "timeout", "network", "500", "502", "503",
   "504", "ECONNRESET", "ETIMEDOUT", "401", "403", "400", "Invalid API key",
   "Service Unavailable"}

ClassifyFragments ==
  {"network", "failed to fetch", "connection", "api key", "Unauthorized", "401",
   "rate limit", "429", "too many requests", "forbidden", "403", "not found",
   "invalid", "invalid_api_key", "bad request", "400", "timeout", "deadline",
   "503", "server error", "Service Unavailable", "disk full"}

MessagesOver(F) == {<<>>} \cup {<<f>> : f \in F}

ClassifyMessages ==
  MessagesOver(ClassifyFragments) \cup {<<"401", "Unauthorized">>}

VARIABLES
  probe            \* the last function call made and the value it returned

pureVars == <<probe>>

NoProbe == [fn |-> "none"]

\* this.requestQueue._calculateRetryDelay(retryCount)
ProbeRetryDelay(retryCount, rnd) ==
  probe' = [fn |-> "calculateRetryDelay", retryCount |-> retryCount, rnd |-> rnd,
            out |-> CalculateRetryDelay(retryCount, rnd)]

\* this.requestQueue._shouldRetry(item, error)
ProbeShouldRetry(retries, msg) ==
  probe' = [fn |-> "shouldRetry", retries |-> retries, message |-> msg,
            out |-> ShouldRetry([retries |-> retries], msg)]

\* new ContextError(message, context, originalError) of either file
ProbeCategorize(message, originalMessage) ==
  probe' = [fn |-> "categorizeError", message |-> message,
            originalMessage |-> originalMessage,
            out |-> CategorizeError(message, originalMessage),
            service |-> ServiceCategorizeError(message, originalMessage)]

PureInit == probe = NoProbe

\* ------------------------------------------------------- response parser
\* A response text is a sequence of characters. The characters with a role
\* in the parser are kept apart: the JSON punctuation, the blank, the key
\* names and the word Other stand for themselves, and "a" is any other letter.
MaxObjects == 2        \* objects in the array the model answered with

Quote == "\""
Blank == " "
defaultCategory == <<"Tools > Utilities">>

\* what the model may write as a category and as a title
CategoryTexts == {<<>>, <<Blank>>, <<"Other">>, <<"a", Blank, "Other">>, <<"a">>}
TitleTexts == {<<"a">>, <<"[", "a">>}

\* an object without the category member has hasCategory false; the title
\* with a bracket goes with the plain category
ResponseObjects ==
  {o \in [hasCategory : BOOLEAN, category : CategoryTexts, title : TitleTexts] :
     /\ ~o.hasCategory => o.category = <<>>
     /\ o.title # <<"a">> => (o.hasCategory /\ o.category = <<"a">>)}

StringText(content) == <<Quote>> \o content \o <<Quote>>

ObjectText(o) ==
  <<"{">>
  \o (IF o.hasCategory
      THEN StringText(<<"category">>) \o <<":">> \o StringText(o.category) \o <<",">>
      ELSE <<>>)
  \o StringText(<<"title">>) \o <<":">> \o StringText(o.title)
  \o <<"}">>

RECURSIVE JoinObjects(_)
JoinObjects(objects) ==
  IF objects = <<>> THEN <<>>
  ELSE IF Len(objects) = 1 THEN ObjectText(objects[1])
  ELSE ObjectText(objects[1]) \o <<",">> \o JoinObjects(Tail(objects))

\* the well-formed text of an array of objects
ArrayText(objects) == <<"[">> \o JoinObjects(objects) \o <<"]">>

\* the response the provider sent: the array text less `cut` trailing characters
ResponseText(r) ==
  LET full == ArrayText(r.objects) IN SubSeq(full, 1, Len(full) - r.cut)

\* String.prototype.trim
RECURSIVE TrimLeft(_)
TrimLeft(text) ==
  IF text # <<>> /\ Head(text) = Blank THEN TrimLeft(Tail(text)) ELSE text

RECURSIVE TrimRight(_)
TrimRight(text) ==
  IF text # <<>> /\ text[Len(text)] = Blank
  THEN TrimRight(SubSeq(text, 1, Len(text) - 1)) ELSE text

Trim(text) == TrimRight(TrimLeft(text))

Occurrences(text, ch) == Cardinality({i \in DOMAIN text : text[i] = ch})

\* cleanText.match(/\[[\s\S]*\]/): from the first "[" to the last "]"
ExtractArray(text) ==
  LET opens == {i \in DOMAIN text : text[i] = "["}
      closes == {i \in DOMAIN text : text[i] = "]"}
  IN IF opens # {} /\ closes # {} /\ Min(opens) < Max(closes)
     THEN SubSeq(text, Min(opens), Max(closes))
     ELSE text

\* the position after the run of blanks that starts at i
RECURSIVE SkipBlanks(_, _)
SkipBlanks(text, i) ==
  IF i <= Len(text) /\ text[i] = Blank THEN SkipBlanks(text, i + 1) ELSE i

NoneFrom(text, i, chars) == \A k \in i..Len(text) : text[k] \notin chars

\* repaired.match(/},\s*\{[^}]*$/): the positions where the pattern matches
LastCompleteObjectMatch(text) ==
  {i \in DOMAIN text :
     /\ text[i] = "}"
     /\ i + 1 <= Len(text) /\ text[i + 1] = ","
     /\ LET k == SkipBlanks(text, i + 2)
        IN k <= Len(text) /\ text[k] = "{" /\ NoneFrom(text, k + 1, {"}"})}

\* repaired.replace(/,\s*"[^"]*$/, '')
DropTrailingString(text) ==
  LET at == {i \in DOMAIN text :
               /\ text[i] = ","
               /\ LET k == SkipBlanks(text, i + 1)
                  IN k <= Len(text) /\ text[k] = Quote
                     /\ NoneFrom(text, k + 1, {Quote})}
  IN IF at = {} THEN text ELSE SubSeq(text, 1, Min(at) - 1)

\* repaired.replace(/,\s*[^,\]}]*$/, '')
DropTrailingValue(text) ==
  LET at == {i \in DOMAIN text :
               text[i] = "," /\ NoneFrom(text, i + 1, {",", "]", "}"})}
  IN IF at = {} THEN text ELSE SubSeq(text, 1, Min(at) - 1)

RECURSIVE Repeat(_, _)
Repeat(ch, n) == IF n <= 0 THEN <<>> ELSE <<ch>> \o Repeat(ch, n - 1)

\* openBrackets > closeBrackets || openBraces > closeBraces
TruncationDetected(text) ==
  \/ Occurrences(text, "[") > Occurrences(text, "]")
  \/ Occurrences(text, "{") > Occurrences(text, "}")

\* _repairTruncatedJson
RepairTruncatedJson(jsonStr) ==
  IF Trim(jsonStr) = <<>> THEN jsonStr
  ELSE LET repaired == Trim(jsonStr)
       IN IF ~TruncationDetected(repaired) THEN repaired
          ELSE LET m == LastCompleteObjectMatch(repaired)
                   r1 == IF m = {} THEN repaired ELSE SubSeq(repaired, 1, Min(m))
                   r2 == DropTrailingString(r1)
                   r3 == DropTrailingValue(r2)
                   missingBraces == Occurrences(r3, "{") - Occurrences(r3, "}")
                   r4 == r3 \o Repeat("}", missingBraces)
                   missingBrackets == Occurrences(r4, "[") - Occurrences(r4, "]")
               IN r4 \o Repeat("]", missingBrackets)

\* JSON.parse over strings, arrays and objects
SyntaxError == [ok |-> FALSE]

ParseString(text, i) ==
  LET ends == {j \in (i + 1)..Len(text) : text[j] = Quote}
  IN IF ends = {} THEN SyntaxError
     ELSE [ok |-> TRUE, next |-> Min(ends) + 1,
           val |-> [type |-> "string", v |-> SubSeq(text, i + 1, Min(ends) - 1)]]

RECURSIVE ParseValue(_, _), ParseElements(_, _, _), ParseMembers(_, _, _)
ParseValue(text, i) ==
  LET k == SkipBlanks(text, i)
  IN IF k > Len(text) THEN SyntaxError
     ELSE IF text[k] = Quote THEN ParseString(text, k)
     ELSE IF text[k] = "["
     THEN LET n == SkipBlanks(text, k + 1)
          IN IF n <= Len(text) /\ text[n] = "]"
             THEN [ok |-> TRUE, next |-> n + 1, val |-> [type |-> "array", v |-> <<>>]]
             ELSE ParseElements(text, n, <<>>)
     ELSE IF text[k] = "{"
     THEN LET n == SkipBlanks(text, k + 1)
          IN IF n <= Len(text) /\ text[n] = "}"
             THEN [ok |-> TRUE, next |-> n + 1, val |-> [type |-> "object", v |-> <<>>]]
             ELSE ParseMembers(text, n, <<>>)
     ELSE SyntaxError

ParseElements(text, i, acc) ==
  LET e == ParseValue(text, i)
  IN IF ~e.ok THEN SyntaxError
     ELSE LET n == SkipBlanks(text, e.next)
              all == Append(acc, e.val)
          IN IF n > Len(text) THEN SyntaxError
             ELSE IF text[n] = "," THEN ParseElements(text, n + 1, all)
             ELSE IF text[n] = "]"
             THEN [ok |-> TRUE, next |-> n + 1, val |-> [type |-> "array", v |-> all]]
             ELSE SyntaxError

ParseMembers(text, i, acc) ==
  LET k == SkipBlanks(text, i)
  IN IF k > Len(text) \/ text[k] # Quote THEN SyntaxError
     ELSE LET key == ParseString(text, k)
          IN IF ~key.ok THEN SyntaxError
             ELSE LET c == SkipBlanks(text, key.next)
                  IN IF c > Len(text) \/ text[c] # ":" THEN SyntaxError
                     ELSE LET e == ParseValue(text, c + 1)
                          IN IF ~e.ok THEN SyntaxError
                             ELSE LET n == SkipBlanks(text, e.next)
                                      all == Append(acc, [key |-> key.val.v, val |-> e.val])
                                  IN IF n > Len(text) THEN SyntaxError
                                     ELSE IF text[n] = "," THEN ParseMembers(text, n + 1, all)
                                     ELSE IF text[n] = "}"
                                     THEN [ok |-> TRUE, next |-> n + 1,
                                           val |-> [type |-> "object", v |-> all]]
                                     ELSE SyntaxError

JsonParse(text) ==
  LET r == ParseValue(text, 1)
  IN IF r.ok /\ SkipBlanks(text, r.next) = Len(text) + 1 THEN r ELSE SyntaxError

\* result.<key>: the last member of that name, undefined otherwise
Undefined == [type |-> "undefined", v |-> <<>>]

Property(result, key) ==
  IF result.type # "object" THEN Undefined
  ELSE LET at == {i \in DOMAIN result.v : result.v[i].key = <<key>>}
       IN IF at = {} THEN Undefined ELSE result.v[Max(at)].val

Falsy(value) ==
  value.type = "undefined" \/ (value.type = "string" /\ value.v = <<>>)

\* a test that lets every category through
NeverOther(category) == FALSE

\* category === 'Other' || category.includes('Other'), of a string
IncludesOther(category) == \E i \in DOMAIN category : category[i] = "Other"

\* the category of one mapped result, or the TypeError a value without
\* includes() or trim() raises
MapCategory(result) ==
  LET given == Property(result, "category")
  IN IF Falsy(given) THEN [ok |-> TRUE, category |-> defaultCategory]
     ELSE IF given.type = "string"
     THEN IF IncludesOther(given.v) THEN [ok |-> TRUE, category |-> defaultCategory]
          ELSE IF Trim(given.v) = <<>> THEN [ok |-> TRUE, category |-> defaultCategory]
          ELSE [ok |-> TRUE, category |-> given.v]
     ELSE IF given.type = "array"
             /\ \E i \in DOMAIN given.v : given.v[i] = [type |-> "string", v |-> <<"Other">>]
     THEN [ok |-> TRUE, category |-> defaultCategory]
     ELSE [ok |-> FALSE]

MapTitle(result, index) ==
  LET given == Property(result, "title")
  IN IF Falsy(given) THEN <<"Untitled">> ELSE given.v

NotParsed == [kind |-> "none"]

\* _parseResponse: the results, or the error thrown
ParseResponse(responseText) ==
  LET cleanText == RepairTruncatedJson(ExtractArray(Trim(responseText)))
      parsed == JsonParse(cleanText)
  IN IF ~parsed.ok
     THEN [kind |-> "thrown", isTruncation |-> TRUE,
           message |-> <<"JSON truncation detected: ", "Unexpected token">>]
     ELSE IF parsed.val.type # "array"
     THEN [kind |-> "thrown", isTruncation |-> FALSE,
           message |-> <<"Failed to parse AI response: ", "Response is not an array">>]
     ELSE LET elements == parsed.val.v
              mapped == [i \in DOMAIN elements |-> MapCategory(elements[i])]
          IN IF \E i \in DOMAIN mapped : ~mapped[i].ok
             THEN [kind |-> "thrown", isTruncation |-> FALSE,
                   message |-> <<"Failed to parse AI response: ", "is not a function">>]
             ELSE LET results == [i \in DOMAIN elements |->
                                    [id |-> i, category |-> mapped[i].category,
                                     title |-> MapTitle(elements[i], i)]]
                  IN IF \E i \in DOMAIN results : IncludesOther(results[i].category)
                     THEN [kind |-> "thrown", isTruncation |-> FALSE,
                           message |-> <<"Failed to parse AI response: ",
                                         "AI returned forbidden \"Other\" categories despite explicit instructions">>]
                     ELSE [kind |-> "ok", results |-> results]

VARIABLES
  response,        \* what the provider answered: the objects written and the characters cut off
  parsed           \* what _parseResponse returned or threw for it

parseVars == <<response, parsed>>

NoResponse == [objects |-> <<>>, cut |-> 0]

\* the position of the closing brace of the k-th object in the array text
RECURSIVE EndOf(_, _)
EndOf(objects, k) ==
  IF k = 0 THEN 1 ELSE EndOf(objects, k - 1) + Len(ObjectText(objects[k])) + (IF k > 1 THEN 1 ELSE 0)

ObjectArrays(most) == UNION {[1..n -> ResponseObjects] : n \in 1..most}

\* truncations that leave at least one complete leading object
Responses(most) ==
  UNION {{[objects |-> a, cut |-> c] : c \in 0..(Len(ArrayText(a)) - EndOf(a, 1))} :
           a \in ObjectArrays(most)}

ParseIdle == response = NoResponse /\ parsed = NotParsed

ParseInit == response \in Responses(MaxObjects) /\ parsed = NotParsed

\* the provider method hands the text of the response to _parseResponse
ParseResponseCall ==
  /\ response # NoResponse
  /\ parsed = NotParsed
  /\ parsed' = ParseResponse(ResponseText(response))
  /\ UNCHANGED response

\* --------------------------------------------- categorization entry point
MaxEntryCalls == 3     \* calls of categorizeAllBookmarks explored

recoveryStepCount == 4

\* new Error(message)
BareError(message) ==
  [class |-> "Error", message |-> message, originalMessage |-> <<>>,
   errorType |-> "", userMessage |-> "", recoverySteps |-> 0]

\* new ContextError(message, context, originalError) of the error handler:
\* errorType, then the user message and the recovery steps of that type
NewContextError(message, originalError) ==
  LET errorType == CategorizeError(message, originalError.message)
  IN [class |-> "ContextError", message |-> message,
      originalMessage |-> originalError.message, errorType |-> errorType,
      userMessage |-> errorType, recoverySteps |-> recoveryStepCount]

\* what is thrown inside the try block of categorizeAllBookmarks
ThrownInside ==
  {BareError(<<"API key not configured">>),
   BareError(<<"AI categorization timeout">>),
   NewContextError(<<"Chrome bookmarks API not available">>,
                   BareError(<<"Extension context not available">>))}

\* the last errors the orchestrator may hold when its candidates run out
LastErrors ==
  {NoError} \cup {CandidateError(p, k, 1) : p \in Providers, k \in RetryableKinds \cup {"truncated"}}

VARIABLES
  isProcessing,       \* Categorizer.isProcessing
  entryPc,            \* "idle", or "running" inside the try block
  received,           \* what the last caller of categorizeAllBookmarks got
  orchestratorThrew,  \* what the caller of the orchestrator got when it threw
  entryCalls          \* calls made

entryVars == <<isProcessing, entryPc, received, orchestratorThrew, entryCalls>>

NothingReceived == [class |-> "none"]

Returned == [class |-> "returned"]

\* categorizeAllBookmarks up to its first await
CategorizeAllBookmarks ==
  /\ entryCalls < MaxEntryCalls
  /\ entryCalls' = entryCalls + 1
  /\ IF isProcessing
     THEN /\ received' = BareError(<<"Categorization already in progress">>)
          /\ UNCHANGED <<isProcessing, entryPc, orchestratorThrew>>
     ELSE /\ isProcessing' = TRUE
          /\ entryPc' = "running"
          /\ received' = NothingReceived
          /\ orchestratorThrew' = NothingReceived

\* _processBatchWithProviderFallback runs out of candidates (lines 2595-2599)
OrchestratorExhausted(lastError) ==
  /\ entryPc = "running"
  /\ orchestratorThrew' = BareError(ExhaustedError(lastError).message)
  /\ UNCHANGED <<isProcessing, entryPc, received, entryCalls>>

\* the catch and finally blocks of categorizeAllBookmarks
EntryThrows(error) ==
  /\ entryPc = "running"
  /\ received' = IF error.class = "ContextError" THEN error
                 ELSE NewContextError(<<"Categorization failed">>, error)
  /\ isProcessing' = FALSE
  /\ entryPc' = "idle"
  /\ UNCHANGED <<orchestratorThrew, entryCalls>>

\* return finalResults, then the finally block
EntryReturns ==
  /\ entryPc = "running"
  /\ received' = Returned
  /\ isProcessing' = FALSE
  /\ entryPc' = "idle"
  /\ UNCHANGED <<orchestratorThrew, entryCalls>>

EntryInit ==
  /\ isProcessing = FALSE
  /\ entryPc = "idle"
  /\ received = NothingReceived
  /\ orchestratorThrew = NothingReceived
  /\ entryCalls = 0

\* ------------------------------------------------ getMetrics, clearMetrics
MaxMetricsItems == 2   \* enqueue calls explored together with the metrics calls
MaxMetricsCalls == 1   \* calls of getMetrics and of clearMetrics explored, each
MetricsTickMs == 4000  \* step of the clock while the metrics calls are explored
MaxMetricsTicks == 17

metricsCleanupPeriod == 10000

VARIABLES
  requestsPerMinute,  \* this.metrics.requestsPerMinute: a Map, empty at first
  metricsReturn,      \* what the last getMetrics call returned
  getCalls,           \* calls of getMetrics made
  clearCalls,         \* calls of clearMetrics made
  nextCleanup         \* when the setInterval of _startMetricsCleanup is due next

metricsVars == <<requestsPerMinute, metricsReturn, getCalls, clearCalls, nextCleanup>>

RpmKeys == Providers \cup {"overall"}

\* _updateRequestsPerMinute: the value the Map holds afterwards
UpdateRequestsPerMinute(history, t) ==
  [k \in RpmKeys |->
     Cardinality({ts \in DOMAIN history :
                    ts >= t - WindowMs /\ (k = "overall" \/ history[ts] = k)})]

\* this.metrics.requestsPerMinute.get(provider) || 0
RpmGet(map, k) == IF k \in DOMAIN map THEN map[k] ELSE 0

NoMetrics == [queueDepth |-> 0, totalRequests |-> 0, rpm |-> <<>>]

\* a getMetrics that also prunes the request history, as the interval does
GetMetricsPruning ==
  /\ getCalls < MaxMetricsCalls
  /\ getCalls' = getCalls + 1
  /\ requestHistory' = [ts \in {t \in DOMAIN requestHistory : ~(t < now - WindowMs)}
                          |-> requestHistory[ts]]
  /\ requestsPerMinute' = UpdateRequestsPerMinute(requestHistory', now)
  /\ metricsReturn' = [queueDepth |-> metrics.queueDepth,
                       totalRequests |-> metrics.totalRequests,
                       rpm |-> [p \in Providers |-> RpmGet(requestsPerMinute', p)]]
  /\ UNCHANGED <<now, queue, items, processing, loop, inflight, metrics, clearCalls,
                 nextCleanup>>

\* getMetrics()
GetMetrics ==
  /\ getCalls < MaxMetricsCalls
  /\ getCalls' = getCalls + 1
  /\ requestsPerMinute' = UpdateRequestsPerMinute(requestHistory, now)
  /\ metricsReturn' = [queueDepth |-> metrics.queueDepth,
                       totalRequests |-> metrics.totalRequests,
                       rpm |-> [p \in Providers |-> RpmGet(requestsPerMinute', p)]]
  /\ UNCHANGED <<queueVars, clearCalls, nextCleanup>>

\* clearMetrics()
ClearMetrics ==
  /\ clearCalls < MaxMetricsCalls
  /\ clearCalls' = clearCalls + 1
  /\ requestHistory' = <<>>
  /\ metrics' = [metrics EXCEPT !.throttledRequests = 0, !.totalRequests = 0,
                                !.successfulRequests = 0, !.failedRequests = 0,
                                !.retriedRequests = 0,
                                !.requests = ZeroByProvider,
                                !.successful = ZeroByProvider,
                                !.failed = ZeroByProvider,
                                !.throttled = ZeroByProvider]
  /\ UNCHANGED <<now, queue, items, processing, loop, inflight,
                 requestsPerMinute, metricsReturn, getCalls, nextCleanup>>

\* _startMetricsCleanup: the whole interval callback
MetricsInterval ==
  /\ loop.pc # "gap"
  /\ now >= nextCleanup
  /\ nextCleanup' = nextCleanup + metricsCleanupPeriod
  /\ requestHistory' = [ts \in {t \in DOMAIN requestHistory : ~(t < now - WindowMs)}
                          |-> requestHistory[ts]]
  /\ requestsPerMinute' = UpdateRequestsPerMinute(requestHistory', now)
  /\ UNCHANGED <<now, queue, items, processing, loop, inflight, metrics,
                 metricsReturn, getCalls, clearCalls>>

\* _executeRequest resumed after its await, with line 215 of the success
\* path: this._updateRequestsPerMinute()
SettleAndUpdate(e) ==
  /\ ExecuteSettle(e, 500)
  /\ requestsPerMinute' = IF items[e.id].request = "ok"
                          THEN UpdateRequestsPerMinute(requestHistory', now)
                          ELSE requestsPerMinute
  /\ UNCHANGED <<metricsReturn, getCalls, clearCalls, nextCleanup>>

\* the clock; a due interval callback runs before time moves on
MetricsTick ==
  /\ loop.pc # "gap"
  /\ now < nextCleanup
  /\ now + MetricsTickMs <= MaxMetricsTicks * MetricsTickMs
  /\ now' = now + MetricsTickMs
  /\ UNCHANGED <<queue, items, processing, loop, inflight, requestHistory, metrics,
                 metricsVars>>

MetricsInit ==
  /\ nextCleanup = metricsCleanupPeriod
  /\ requestsPerMinute = <<>>
  /\ metricsReturn = NoMetrics
  /\ getCalls = 0
  /\ clearCalls = 0

\* ------------------------------------- the learning guard of background.js
\* The service worker's record of a running AI categorization, kept so that
\* handleBookmarkMove learns from the user's moves only.
MaxGuardBookmarks == 2
MaxGuardRuns == 2
MaxUserMoves == 1
MaxRestores == 1
MaxGuardTicks == 3
GuardTickMs == 5000
aiCleanupDelay == 15000
restoreCleanupDelay == 5000
recentRunMs == 30000
markerMaxAge == 60000

GuardBookmarks == 1..MaxGuardBookmarks
\* '1' is the Bookmarks Bar, '2' Other Bookmarks, '10' a folder of the user
BarId == "1"
RootIds == {"1", "2"}
FolderIds == {"1", "2", "10"}
NoTime == -1

VARIABLES
  isAICategorizing,            \* line 64
  aiCategorizedBookmarks,      \* line 65
  aiCategorizationStartTime,   \* line 66, NoTime for null
  isRestoringSnapshot,         \* line 69
  listening,                   \* bookmarkMoveListener is registered on onMoved
  timeouts,                    \* callbacks handed to setTimeout, not yet run
  bgNow,                       \* Date.now() of the service worker
  aiMoved,                     \* chrome.storage.local: ai_moved_<id>, NoTime if absent
  moveEvents,                  \* onMoved events and their handlers, oldest first
  learned,                     \* moves handed to LearningService.recordCorrection
  aiRun,                       \* the categorizeBookmarks run sending the messages
  guardCalls                   \* runs, user moves and restores so far

guardVars == <<isAICategorizing, aiCategorizedBookmarks, aiCategorizationStartTime,
               isRestoringSnapshot, listening, timeouts, bgNow, aiMoved,
               moveEvents, learned, aiRun, guardCalls>>

NoRun == [pc |-> "idle", marked |-> {}, target |-> 0]

GuardInit ==
  /\ isAICategorizing = FALSE
  /\ aiCategorizedBookmarks = {}
  /\ aiCategorizationStartTime = NoTime
  /\ isRestoringSnapshot = FALSE
  /\ listening = TRUE
  /\ timeouts = {}
  /\ bgNow = 0
  /\ aiMoved = [b \in GuardBookmarks |-> NoTime]
  /\ moveEvents = <<>>
  /\ learned = {}
  /\ aiRun = NoRun
  /\ guardCalls = [runs |-> 0, userMoves |-> 0, restores |-> 0]

\* chrome.bookmarks.onMoved: a move is delivered to the listener registered
\* when it happens; stage 0 is the handler not yet started
Fire(bookmarkId, byAI, oldParentId, parentId) ==
  IF listening
    THEN Append(moveEvents, [id |-> bookmarkId, ai |-> byAI, oldParentId |-> oldParentId,
                             parentId |-> parentId, stage |-> 0, marker |-> NoTime])
    ELSE moveEvents

\* case 'startAICategorization'
StartAICategorization ==
  /\ aiRun.pc = "idle"
  /\ guardCalls.runs < MaxGuardRuns
  /\ isAICategorizing' = TRUE
  /\ aiCategorizedBookmarks' = {}
  /\ aiCategorizationStartTime' = bgNow
  /\ listening' = FALSE
  /\ aiRun' = [pc |-> "running", marked |-> {}, target |-> 0]
  /\ guardCalls' = [guardCalls EXCEPT !.runs = @ + 1]
  /\ UNCHANGED <<isRestoringSnapshot, timeouts, bgNow, aiMoved, moveEvents, learned>>

\* _moveBookmarkImmediately, first half: case 'markBookmarkAsAIMoved', then
\* chrome.storage.local.set({ ai_moved_<id>: Date.now() })
MarkBookmarkAsAIMoved(bookmarkId) ==
  /\ aiRun.pc = "running"
  /\ bookmarkId \notin aiRun.marked
  /\ aiCategorizedBookmarks' = aiCategorizedBookmarks \cup {bookmarkId}
  /\ aiMoved' = [aiMoved EXCEPT ![bookmarkId] = bgNow]
  /\ aiRun' = [pc |-> "move", marked |-> aiRun.marked \cup {bookmarkId}, target |-> bookmarkId]
  /\ UNCHANGED <<isAICategorizing, aiCategorizationStartTime, isRestoringSnapshot,
                 listening, timeouts, bgNow, moveEvents, learned, guardCalls>>

\* _moveBookmarkImmediately, second half: chrome.bookmarks.move into a
\* folder made under the Bookmarks Bar
AIMove(oldParentId, parentId) ==
  /\ aiRun.pc = "move"
  /\ parentId \notin RootIds
  /\ oldParentId # parentId
  /\ moveEvents' = Fire(aiRun.target, TRUE, oldParentId, parentId)
  /\ aiRun' = [aiRun EXCEPT !.pc = "running", !.target = 0]
  /\ UNCHANGED <<isAICategorizing, aiCategorizedBookmarks, aiCategorizationStartTime,
                 isRestoringSnapshot, listening, timeouts, bgNow, aiMoved, learned,
                 guardCalls>>

\* case 'endAICategorization'
EndAICategorization ==
  /\ aiRun.pc = "running"
  /\ isAICategorizing' = FALSE
  /\ timeouts' = timeouts \cup {[kind |-> "ai", due |-> bgNow + aiCleanupDelay]}
  /\ aiRun' = NoRun
  /\ UNCHANGED <<aiCategorizedBookmarks, aiCategorizationStartTime, isRestoringSnapshot,
                 listening, bgNow, aiMoved, moveEvents, learned, guardCalls>>

\* case 'startSnapshotRestore'
StartSnapshotRestore ==
  /\ ~isRestoringSnapshot
  /\ guardCalls.restores < MaxRestores
  /\ isRestoringSnapshot' = TRUE
  /\ listening' = FALSE
  /\ guardCalls' = [guardCalls EXCEPT !.restores = @ + 1]
  /\ UNCHANGED <<isAICategorizing, aiCategorizedBookmarks, aiCategorizationStartTime,
                 timeouts, bgNow, aiMoved, moveEvents, learned, aiRun>>

\* case 'endSnapshotRestore'
EndSnapshotRestore ==
  /\ isRestoringSnapshot
  /\ isRestoringSnapshot' = FALSE
  /\ timeouts' = timeouts \cup {[kind |-> "restore", due |-> bgNow + restoreCleanupDelay]}
  /\ UNCHANGED <<isAICategorizing, aiCategorizedBookmarks, aiCategorizationStartTime,
                 listening, bgNow, aiMoved, moveEvents, learned, aiRun, guardCalls>>

\* the setTimeout callbacks of endAICategorization and endSnapshotRestore
TimeoutFires(t) ==
  /\ t \in timeouts
  /\ t.due <= bgNow
  /\ timeouts' = timeouts \ {t}
  /\ listening' = TRUE
  /\ aiCategorizedBookmarks' = IF t.kind = "ai" THEN {} ELSE aiCategorizedBookmarks
  /\ aiCategorizationStartTime' = IF t.kind = "ai" THEN NoTime ELSE aiCategorizationStartTime
  /\ UNCHANGED <<isAICategorizing, isRestoringSnapshot, bgNow, aiMoved, moveEvents,
                 learned, aiRun, guardCalls>>

\* the user drags a bookmark to another folder
UserMove(bookmarkId, oldParentId, parentId) ==
  /\ guardCalls.userMoves < MaxUserMoves
  /\ oldParentId # parentId
  /\ moveEvents' = Fire(bookmarkId, FALSE, oldParentId, parentId)
  /\ guardCalls' = [guardCalls EXCEPT !.userMoves = @ + 1]
  /\ UNCHANGED <<isAICategorizing, aiCategorizedBookmarks, aiCategorizationStartTime,
                 isRestoringSnapshot, listening, timeouts, bgNow, aiMoved, learned, aiRun>>

\* handlers keep the order of their events at every await
InTurn(i, stage) ==
  /\ i \in DOMAIN moveEvents
  /\ moveEvents[i].stage = stage
  /\ \A j \in 1..(i - 1) : moveEvents[j].stage > stage

Drop(i) == [j \in 1..(Len(moveEvents) - 1) |-> IF j < i THEN moveEvents[j] ELSE moveEvents[j + 1]]

\* Layers 0 to 4 of handleBookmarkMove, up to the call of storage.local.get
BlockedByLayers(bookmarkId) ==
  \/ isRestoringSnapshot
  \/ isAICategorizing
  \/ bookmarkId \in aiCategorizedBookmarks
  \/ (aiCategorizationStartTime # NoTime /\ bgNow - aiCategorizationStartTime < recentRunMs)
  \/ aiCategorizedBookmarks # {}

HandleLayers(i) ==
  /\ InTurn(i, 0)
  /\ moveEvents' = IF BlockedByLayers(moveEvents[i].id)
                     THEN Drop(i)
                     ELSE [moveEvents EXCEPT ![i].stage = 1]
  /\ UNCHANGED <<isAICategorizing, aiCategorizedBookmarks, aiCategorizationStartTime,
                 isRestoringSnapshot, listening, timeouts, bgNow, aiMoved, learned,
                 aiRun, guardCalls>>

\* chrome.storage.local.get answers with the marker it finds
StorageGet(i) ==
  /\ InTurn(i, 1)
  /\ moveEvents' = [moveEvents EXCEPT ![i].stage = 2, ![i].marker = aiMoved[moveEvents[i].id]]
  /\ UNCHANGED <<isAICategorizing, aiCategorizedBookmarks, aiCategorizationStartTime,
                 isRestoringSnapshot, listening, timeouts, bgNow, aiMoved, learned,
                 aiRun, guardCalls>>

\* Layer 5: a marker younger than a minute stops the handler; a marker that
\* was found is removed either way
HandleMarker(i) ==
  /\ InTurn(i, 2)
  /\ LET m == moveEvents[i]
     IN /\ aiMoved' = IF m.marker # NoTime THEN [aiMoved EXCEPT ![m.id] = NoTime] ELSE aiMoved
        /\ moveEvents' = IF m.marker # NoTime /\ bgNow - m.marker < markerMaxAge
                           THEN Drop(i)
                           ELSE [moveEvents EXCEPT ![i].stage = 3]
  /\ UNCHANGED <<isAICategorizing, aiCategorizedBookmarks, aiCategorizationStartTime,
                 isRestoringSnapshot, listening, timeouts, bgNow, learned, aiRun, guardCalls>>

\* the moves handleBookmarkMove takes for preparation or results of a run
SkippedMove(oldParentId, parentId) ==
  \/ parentId = BarId
  \/ oldParentId = BarId
  \/ (oldParentId \in RootIds /\ parentId \in RootIds)
  \/ parentId \in RootIds \ {BarId}

\* after the lookups: Layer 6, the skipped moves, recordCorrection
HandleRecord(i) ==
  /\ InTurn(i, 3)
  /\ LET m == moveEvents[i]
     IN learned' = IF isAICategorizing \/ SkippedMove(m.oldParentId, m.parentId)
                     THEN learned
                     ELSE learned \cup {[id |-> m.id, ai |-> m.ai]}
  /\ moveEvents' = Drop(i)
  /\ UNCHANGED <<isAICategorizing, aiCategorizedBookmarks, aiCategorizationStartTime,
                 isRestoringSnapshot, listening, timeouts, bgNow, aiMoved, aiRun, guardCalls>>

\* Time passes once every due callback has run and every delivered event has
\* been handled; the 100 ms between marking and moving fit into one step.
GuardTick ==
  /\ bgNow < MaxGuardTicks * GuardTickMs
  /\ moveEvents = <<>>
  /\ \A t \in timeouts : t.due > bgNow
  /\ aiRun.pc = "move" => aiMoved[aiRun.target] = bgNow
  /\ bgNow' = bgNow + GuardTickMs
  /\ UNCHANGED <<isAICategorizing, aiCategorizedBookmarks, aiCategorizationStartTime,
                 isRestoringSnapshot, listening, timeouts, aiMoved, moveEvents, learned,
                 aiRun, guardCalls>>

\* ------------------------------------ one AIProcessor.categorizeBookmarks
\* The run as the sender of startAICategorization and endAICategorization.
MaxSessionBookmarks == 3
MaxBatchSize == 2
MaxSessionCalls == 2

VARIABLES
  session,       \* where the call of categorizeBookmarks stands
  sent,          \* chrome.runtime.sendMessage calls of the call, in order
  sessionCalls   \* calls made so far

sessionVars == <<session, sent, sessionCalls>>

NoSession == [pc |-> "idle", bookmarks |-> 0, batchSize |-> 0, i |-> 0, j |-> 0,
              got |-> 0, outcome |-> "none", error |-> ""]

SessionInit ==
  /\ session = NoSession
  /\ sent = <<>>
  /\ sessionCalls = 0

\* how often the call has sent the message so far
Sent(action) == Cardinality({k \in DOMAIN sent : sent[k].action = action})

\* chrome.runtime.sendMessage inside try/catch: a rejection is logged only
Send(action, delivered) == Append(sent, [action |-> action, delivered |-> delivered])

\* lines 1020-1035: the checks before anything is sent
CategorizeBookmarks(apiKey, bookmarks, batchSize) ==
  /\ session.pc \in {"idle", "done"}
  /\ sessionCalls < MaxSessionCalls
  /\ sessionCalls' = sessionCalls + 1
  /\ sent' = <<>>
  /\ session' =
       IF ~apiKey
         THEN [NoSession EXCEPT !.pc = "done", !.outcome = "thrown", !.error = "API key not set"]
       ELSE IF bookmarks = 0
         THEN [NoSession EXCEPT !.pc = "done", !.outcome = "returned"]
         ELSE [NoSession EXCEPT !.pc = "start", !.bookmarks = bookmarks, !.batchSize = batchSize]

\* lines 1037-1048
NotifyStart(delivered) ==
  /\ session.pc = "start"
  /\ sent' = Send("startAICategorization", delivered)
  /\ session' = [session EXCEPT !.pc = "prepare"]
  /\ UNCHANGED sessionCalls

\* lines 1050-1073: _normalizeExistingFolders, _generateDynamicCategories and
\* _getSettings; any of them may throw
Prepare(error) ==
  /\ session.pc = "prepare"
  /\ session' = IF error = ""
                  THEN [session EXCEPT !.pc = "batch"]
                  ELSE [session EXCEPT !.pc = "catch", !.error = error]
  /\ UNCHANGED <<sent, sessionCalls>>

BatchLength == IF session.bookmarks - session.i < session.batchSize
                 THEN session.bookmarks - session.i ELSE session.batchSize

\* lines 1130-1162 and 1262-1296: the race of _processBatch with its timeout;
\* a failure is reported with CATEGORIZATION_ERROR and thrown again
ProcessBatch(error, got) ==
  /\ session.pc = "batch"
  /\ got \in 0..BatchLength
  /\ IF error = "" /\ got > 0
       THEN /\ session' = [session EXCEPT !.pc = "move", !.j = 0, !.got = got]
            /\ sent' = sent
       ELSE /\ session' = [session EXCEPT !.pc = "catch",
                              !.error = IF error = "" THEN "No results returned" ELSE error]
            /\ \E delivered \in BOOLEAN : sent' = Send("CATEGORIZATION_ERROR", delivered)
  /\ UNCHANGED sessionCalls

\* lines 1183-1260: _moveBookmarkImmediately for one result; a failure of the
\* marking or of the move is caught and the loop goes on
MoveResult(delivered) ==
  /\ session.pc = "move"
  /\ session.j < session.got
  /\ sent' = Send("markBookmarkAsAIMoved", delivered)
  /\ session' = [session EXCEPT !.j = @ + 1]
  /\ UNCHANGED sessionCalls

\* lines 1298-1302: the next batch, or the end of the loop
NextBatch ==
  /\ session.pc = "move"
  /\ session.j = session.got
  /\ session' = IF session.i + session.batchSize < session.bookmarks
                  THEN [session EXCEPT !.pc = "batch", !.i = @ + session.batchSize]
                  ELSE [session EXCEPT !.pc = "finish"]
  /\ UNCHANGED <<sent, sessionCalls>>

\* lines 1329-1345: the end message of the success path, then the return
NotifyEndAndReturn(delivered) ==
  /\ session.pc = "finish"
  /\ sent' = Send("endAICategorization", delivered)
  /\ session' = [session EXCEPT !.pc = "done", !.outcome = "returned"]
  /\ UNCHANGED sessionCalls

\* a catch block that only throws the error again
RethrowOnly(delivered) ==
  /\ session.pc = "catch"
  /\ sent' = sent
  /\ session' = [session EXCEPT !.pc = "done", !.outcome = "thrown"]
  /\ UNCHANGED sessionCalls

\* lines 1346-1364: the catch block sends the end message and throws again
NotifyEndAndRethrow(delivered) ==
  /\ session.pc = "catch"
  /\ sent' = Send("endAICategorization", delivered)
  /\ session' = [session EXCEPT !.pc = "done", !.outcome = "thrown"]
  /\ UNCHANGED sessionCalls

SessionErrors == {"", "category generation failed", "batch failed", "Batch timeout"}

\* --------------------------- startCategorization, startBulkCategorization
\* Each message makes its own Categorizer (new Categorizer(), lines 422 and
\* 543), so every request carries the isProcessing of its own instance.
MaxRequests == 3
RequestKinds == {"all", "bulk"}

VARIABLES
  requests      \* the requests received so far, oldest first

requestVars == <<requests>>

RequestInit == requests = <<>>

\* a run's work (_categorizeWithProgress and the moves) is still executing
Working == {r \in DOMAIN requests : requests[r].working}

\* handleCategorization / handleBulkCategorization: a fresh Categorizer,
\* whose isProcessing is false (line 1593), then the test of lines 1614 and
\* 1843 on that instance
StartCategorization(kind) ==
  /\ Len(requests) < MaxRequests
  /\ LET instance == [isProcessing |-> FALSE]
         overlaps == Working # {}
     IN requests' = Append(requests,
          IF instance.isProcessing
            THEN [kind |-> kind, isProcessing |-> TRUE, working |-> FALSE, waiting |-> FALSE,
                  overlaps |-> overlaps, response |-> "Categorization already in progress"]
            ELSE [kind |-> kind, isProcessing |-> TRUE, working |-> TRUE, waiting |-> TRUE,
                  overlaps |-> overlaps, response |-> ""])

\* the work of a run comes to its end; if its caller still waits, the
\* finally block of lines 1829-1832 / 2027-2030 clears the flag
WorkStops(r, outcome) ==
  /\ r \in Working
  /\ requests' = [requests EXCEPT ![r] =
       IF @.waiting
         THEN [@ EXCEPT !.working = FALSE, !.waiting = FALSE, !.isProcessing = FALSE,
                        !.response = outcome]
         ELSE [@ EXCEPT !.working = FALSE]]

\* the timeout of the Promise.race of line 1753 comes first: the catch and
\* finally blocks run while _categorizeWithProgress goes on
RaceTimeout(r) ==
  /\ r \in Working
  /\ requests[r].kind = "all"
  /\ requests[r].waiting
  /\ requests' = [requests EXCEPT ![r] =
       [@ EXCEPT !.waiting = FALSE, !.isProcessing = FALSE,
                 !.response = "AI categorization timeout"]]

\* state of the objects a specification leaves alone
restOfRun == <<aggVars, pureVars, parseVars, entryVars, metricsVars, guardVars, sessionVars, requestVars>>
RestIdle == AggInit /\ PureInit /\ ParseIdle /\ EntryInit /\ MetricsInit /\ GuardInit /\ SessionInit /\ RequestInit

\* ------------------------------------------- one candidate call at a time
\* this.maxRetries of the AIProcessor
processorMaxRetries == 3

VARIABLES
  call,            \* the suspended _processWithGemini/Cerebras/Groq call
  fetches          \* fetch() calls made so far, by provider

callVars == <<call, fetches>>

\* call.error is the kind of the error caught by the retry loop, if any
NoCandidateCall == [pc |-> "none", retryAttempt |-> 0, item |-> 0, error |-> ""]

CallIdle ==
  /\ call = NoCandidateCall
  /\ fetches = ZeroByProvider

\* everything but the queue, everything but the orchestrator
restOfQueue == <<batchVars, callVars, restOfRun>>
restOfBatch == <<queueVars, callVars, restOfRun>>

\* how a candidate call sends its request: _processWithGemini awaits fetch
\* itself (line 3334), _processWithCerebras and _processWithGroq await
\* this.requestQueue.enqueue(thunk, provider, 'normal') (lines 2883, 3117)
UsesQueue(provider) == provider # "gemini"

\* the request of the candidate call the orchestrator has just made, if any;
\* c is the orchestrator's outstanding call after its step.  A sequential
\* run holds at most one item in the queue, which is never full.
SendRequest(c, retryAttempt) ==
  IF c = NoCall
  THEN /\ call' = NoCandidateCall
       /\ UNCHANGED <<fetches, queueVars>>
  ELSE IF UsesQueue(c.provider)
  THEN /\ call' = [pc |-> "queued", retryAttempt |-> retryAttempt, item |-> Len(items) + 1,
                  error |-> ""]
       /\ Enqueue("ok", c.provider, "normal")
       /\ UNCHANGED fetches
  ELSE /\ call' = [pc |-> "fetch", retryAttempt |-> retryAttempt, item |-> 0, error |-> ""]
       /\ fetches' = [fetches EXCEPT ![c.provider] = @ + 1]
       /\ UNCHANGED queueVars

\* the orchestrator is called and makes its first candidate call
RunCall ==
  /\ FallbackCall
  /\ SendRequest(fbCall', 0)

\* the drain loop goes on; a thunk it invokes calls fetch
RunLoopResume ==
  /\ LoopResume
  /\ fetches' = [p \in Providers |->
                   fetches[p] + (metrics'.requests[p] - metrics.requests[p])]
  /\ UNCHANGED <<batchVars, call>>

\* the candidate call's result or error reaches the orchestrator or the
\* splitter, which may make the next candidate call at once
CandidateSettles(kind, m) ==
  /\ IF fbPc = "wait" THEN FallbackSettle(kind, m) ELSE SplitSettle(kind, m)
  /\ SendRequest(fbCall', 0)

\* _processWithGemini resumed after `await fetch(...)`: lines 3345-3410
GeminiAnswer(kind, m) ==
  /\ call.pc = "fetch"
  /\ CandidateSettles(kind, m)

\* a retry loop that makes one attempt too many
QueuedAnswerOnceMore(kind, m) ==
  /\ call.pc = "queued"
  /\ call.item \in DOMAIN items
  /\ items[call.item].promise = "resolved"
  /\ IF /\ kind \in RetryableKinds \cup {"truncated"}
        /\ call.retryAttempt <= processorMaxRetries
     THEN \* wait for the backoff delay, then the next attempt of the loop
          /\ m = 0
          /\ call' = [call EXCEPT !.pc = "backoff", !.error = kind]
          /\ UNCHANGED <<queueVars, batchVars, fetches>>
     ELSE CandidateSettles(kind, m)

\* _processWithCerebras / _processWithGroq resumed after the promise of
\* enqueue resolved with the response: lines 2899-3062, 3133-3296
QueuedAnswer(kind, m) ==
  /\ call.pc = "queued"
  /\ call.item \in DOMAIN items
  /\ items[call.item].promise = "resolved"
  /\ IF /\ kind \in RetryableKinds \cup {"truncated"}
        /\ call.retryAttempt < processorMaxRetries
     THEN \* wait for the backoff delay, then the next attempt of the loop
          /\ m = 0
          /\ call' = [call EXCEPT !.pc = "backoff", !.error = kind]
          /\ UNCHANGED <<queueVars, batchVars, fetches>>
     ELSE CandidateSettles(kind, m)

\* the backoff timer of the candidate call fires: next attempt
BackoffDone ==
  /\ call.pc = "backoff"
  /\ SendRequest(fbCall, call.retryAttempt + 1)
  /\ UNCHANGED batchVars

\* the delay between candidates or between sub-batches is over
RunDelayDone ==
  /\ \/ FallbackDelayDone
     \/ SplitDelayDone
  /\ SendRequest(fbCall', 0)

MaxRunBatch == 2

RunInit ==
  /\ QueueInit
  /\ CallIdle
  /\ RestIdle
  /\ keys \in {k \in [gemini : BOOLEAN, cerebras : BOOLEAN, groq : BOOLEAN] :
                 ~k.groq /\ (k.gemini # k.cerebras)}
  /\ \E n \in 1..MaxRunBatch : batch = [k \in 1..n |-> k]
  /\ allModels = <<>>
  /\ fbPc = "start"
  /\ fbIndex = 1
  /\ fbLastError = NoError
  /\ fbCall = NoCall
  /\ fbRequested = <<>>
  /\ fbResult = NoResult
  /\ splitStack = <<>>
  /\ fbSeen = NothingSeen

\* One batch, its candidate calls and the queue they go through.
RunNext ==
  \/ RunCall /\ UNCHANGED restOfRun
  \/ \E kind \in OutcomeKinds, m \in 0..MaxRunBatch :
        GeminiAnswer(kind, m) /\ UNCHANGED restOfRun
  \/ \E kind \in OutcomeKinds, m \in 0..MaxRunBatch :
        QueuedAnswer(kind, m) /\ UNCHANGED restOfRun
  \/ BackoffDone /\ UNCHANGED restOfRun
  \/ RunDelayDone /\ UNCHANGED restOfRun
  \/ RunLoopResume /\ UNCHANGED restOfRun
  \/ LoopWake /\ UNCHANGED restOfQueue
  \/ \E e \in inflight : ExecuteSettle(e, 500) /\ UNCHANGED restOfQueue
  \/ MetricsCleanup /\ UNCHANGED restOfQueue
  \/ Tick /\ UNCHANGED restOfQueue

\* a run on one bookmark whose candidates answer 200, 429 or 503
StatusInit ==
  /\ QueueInit
  /\ CallIdle
  /\ RestIdle
  /\ keys \in {k \in [gemini : BOOLEAN, cerebras : BOOLEAN, groq : BOOLEAN] :
                 ~k.groq /\ (k.gemini # k.cerebras)}
  /\ batch = <<1>>
  /\ allModels = <<>>
  /\ fbPc = "start"
  /\ fbIndex = 1
  /\ fbLastError = NoError
  /\ fbCall = NoCall
  /\ fbRequested = <<>>
  /\ fbResult = NoResult
  /\ splitStack = <<>>
  /\ fbSeen = NothingSeen

StatusNext ==
  \/ RunCall /\ UNCHANGED restOfRun
  \/ \E kind \in RetryableKinds \cup {"ok"}, m \in 0..1 :
        GeminiAnswer(kind, m) /\ UNCHANGED restOfRun
  \/ \E kind \in RetryableKinds \cup {"ok"}, m \in 0..1 :
        QueuedAnswer(kind, m) /\ UNCHANGED restOfRun
  \/ BackoffDone /\ UNCHANGED restOfRun
  \/ RunDelayDone /\ UNCHANGED restOfRun
  \/ RunLoopResume /\ UNCHANGED restOfRun
  \/ LoopWake /\ UNCHANGED restOfQueue
  \/ \E e \in inflight : ExecuteSettle(e, 500) /\ UNCHANGED restOfQueue
  \/ MetricsCleanup /\ UNCHANGED restOfQueue
  \/ Tick /\ UNCHANGED restOfQueue

restOfAgg == <<queueVars, batchVars, callVars, pureVars, parseVars, entryVars, metricsVars, guardVars, sessionVars, requestVars>>
restOfPure == <<queueVars, batchVars, callVars, aggVars, parseVars, entryVars, metricsVars, guardVars, sessionVars, requestVars>>
restOfParse == <<queueVars, batchVars, callVars, aggVars, pureVars, entryVars, metricsVars, guardVars, sessionVars, requestVars>>
restOfEntry == <<queueVars, batchVars, callVars, aggVars, pureVars, parseVars, metricsVars, guardVars, sessionVars, requestVars>>
restOfMetrics == <<batchVars, callVars, aggVars, pureVars, parseVars, entryVars, guardVars, sessionVars, requestVars>>
restOfGuard == <<queueVars, batchVars, callVars, aggVars, pureVars, parseVars, entryVars, metricsVars, sessionVars, requestVars>>
restOfSession == <<queueVars, batchVars, callVars, aggVars, pureVars, parseVars, entryVars, metricsVars, guardVars, requestVars>>
restOfRequests == <<queueVars, batchVars, callVars, aggVars, pureVars, parseVars, entryVars, metricsVars, guardVars, sessionVars>>

\* Callers of one ErrorAggregator.
AggNext ==
  \/ \E key \in ErrorKeys, context \in Contexts :
        AggAdd(key, context) /\ UNCHANGED restOfAgg
  \/ AggSweep /\ UNCHANGED restOfAgg
  \/ AggTick /\ UNCHANGED restOfAgg

\* enqueue calls made so far that named a configured provider
EnqueueCalls == metrics.totalRequests + metrics.throttledRequests

\* Callers of two providers whose thunks always succeed.
QueueNext ==
  \/ \E provider \in {"gemini", "cerebras"}, priority \in {"normal", "low"} :
        EnqueueCalls < MaxItems /\ Enqueue("ok", provider, priority)
                                /\ UNCHANGED restOfQueue
  \/ LoopResume /\ UNCHANGED restOfQueue
  \/ LoopWake /\ UNCHANGED restOfQueue
  \/ \E e \in inflight : ExecuteSettle(e, 500) /\ UNCHANGED restOfQueue
  \/ MetricsCleanup /\ UNCHANGED restOfQueue
  \/ Tick /\ UNCHANGED restOfQueue

\* Callers of one provider using every priority; thunks always succeed.
PriorityNext ==
  \/ \E priority \in PriorityNames :
        EnqueueCalls < MaxItems /\ Enqueue("ok", "gemini", priority)
                                /\ UNCHANGED restOfQueue
  \/ LoopResume /\ UNCHANGED restOfQueue
  \/ LoopWake /\ UNCHANGED restOfQueue
  \/ \E e \in inflight : ExecuteSettle(e, 500) /\ UNCHANGED restOfQueue
  \/ MetricsCleanup /\ UNCHANGED restOfQueue
  \/ Tick /\ UNCHANGED restOfQueue

\* Callers of one provider whose thunks may throw.
RetryNext ==
  \/ \E kind \in ThunkKinds, priority \in {"normal", "low"} :
        EnqueueCalls < MaxRetryItems /\ Enqueue(kind, "gemini", priority)
                                     /\ UNCHANGED restOfQueue
  \/ LoopResume /\ UNCHANGED restOfQueue
  \/ LoopWake /\ UNCHANGED restOfQueue
  \/ \E e \in inflight, rnd \in RandomDraws : ExecuteSettle(e, rnd) /\ UNCHANGED restOfQueue
  \/ \E e \in inflight : RetryRequeue(e) /\ UNCHANGED restOfQueue
  \/ MetricsCleanup /\ UNCHANGED restOfQueue
  \/ Tick /\ UNCHANGED restOfQueue

\* One batch handed to the fallback orchestrator.
BatchNext ==
  \/ FallbackCall /\ UNCHANGED restOfBatch
  \/ \E kind \in OutcomeKinds, m \in 0..MaxBatch :
        FallbackSettle(kind, m) /\ UNCHANGED restOfBatch
  \/ FallbackDelayDone /\ UNCHANGED restOfBatch
  \/ \E kind \in OutcomeKinds, m \in 0..MaxBatch :
        SplitSettle(kind, m) /\ UNCHANGED restOfBatch
  \/ SplitDelayDone /\ UNCHANGED restOfBatch

PureNext ==
  \/ \E retryCount \in 1..MaxRetryCount, rnd \in RandomGrid :
        ProbeRetryDelay(retryCount, rnd) /\ UNCHANGED restOfPure
  \/ \E retries \in 0..maxRetries, msg \in MessagesOver(RetryProbeFragments) :
        ProbeShouldRetry(retries, msg) /\ UNCHANGED restOfPure
  \/ \E message \in MessagesOver(ClassifyFragments),
        originalMessage \in ClassifyMessages :
        ProbeCategorize(message, originalMessage) /\ UNCHANGED restOfPure

ParseNext == ParseResponseCall /\ UNCHANGED restOfParse

EntryNext ==
  \/ CategorizeAllBookmarks /\ UNCHANGED restOfEntry
  \/ \E lastError \in LastErrors : OrchestratorExhausted(lastError) /\ UNCHANGED restOfEntry
  \/ \E error \in ThrownInside : EntryThrows(error) /\ UNCHANGED restOfEntry
  \/ EntryReturns /\ UNCHANGED restOfEntry

\* Callers of one provider, and a caller of getMetrics and clearMetrics.
MetricsNext ==
  \/ Len(items) < MaxMetricsItems
        /\ Enqueue("ok", "gemini", "normal") /\ UNCHANGED restOfQueue
  \/ LoopResume /\ UNCHANGED restOfQueue
  \/ LoopWake /\ UNCHANGED restOfQueue
  \/ \E e \in inflight : SettleAndUpdate(e) /\ UNCHANGED restOfMetrics
  \/ MetricsTick /\ UNCHANGED restOfMetrics
  \/ MetricsInterval /\ UNCHANGED restOfMetrics
  \/ GetMetrics /\ UNCHANGED restOfMetrics
  \/ ClearMetrics /\ UNCHANGED restOfMetrics

\* Callers of one provider, and a caller of getMetrics.
GetMetricsNext ==
  \/ Len(items) < MaxMetricsItems
        /\ Enqueue("ok", "gemini", "normal") /\ UNCHANGED restOfQueue
  \/ LoopResume /\ UNCHANGED restOfQueue
  \/ LoopWake /\ UNCHANGED restOfQueue
  \/ \E e \in inflight : SettleAndUpdate(e) /\ UNCHANGED restOfMetrics
  \/ MetricsTick /\ UNCHANGED restOfMetrics
  \/ MetricsInterval /\ UNCHANGED restOfMetrics
  \/ GetMetrics /\ UNCHANGED restOfMetrics

\* promises of enqueue not yet settled
Pending == {id \in DOMAIN items : items[id].promise = "pending"}

\* Callers of one provider whose credential is rejected, each awaiting its
\* enqueue before the next: every thunk throws a 401, which is neither
\* retried nor recorded in requestHistory.
BreakerNext ==
  \/ EnqueueCalls < MaxBreakerItems /\ Cardinality(Pending) < MaxBreakerCallers
        /\ Enqueue("e401", "gemini", "normal") /\ UNCHANGED restOfQueue
  \/ LoopResume /\ UNCHANGED restOfQueue
  \/ \E e \in inflight : ExecuteSettle(e, 500) /\ UNCHANGED restOfQueue

\* Callers of one provider whose thunks succeed or answer 503.
RequeueNext ==
  \/ \E kind \in {"ok", "e503"} :
        EnqueueCalls < MaxRequeueItems /\ Enqueue(kind, "gemini", "normal")
                                       /\ UNCHANGED restOfQueue
  \/ LoopResume /\ UNCHANGED restOfQueue
  \/ LoopWake /\ UNCHANGED restOfQueue
  \/ \E e \in inflight : ExecuteSettle(e, 500) /\ UNCHANGED restOfQueue
  \/ \E e \in inflight : RetryRequeue(e) /\ UNCHANGED restOfQueue
  \/ MetricsCleanup /\ UNCHANGED restOfQueue
  \/ Tick /\ UNCHANGED restOfQueue

\* Callers of one provider filling its queue while a failed request backs off.
CapacityNext ==
  \/ \E kind \in {"ok", "e503"} :
        EnqueueCalls < MaxCapacityItems /\ Enqueue(kind, "gemini", "normal")
                                        /\ UNCHANGED restOfQueue
  \/ LoopResume /\ UNCHANGED restOfQueue
  \/ LoopWake /\ UNCHANGED restOfQueue
  \/ \E e \in inflight : ExecuteSettle(e, 500) /\ UNCHANGED restOfQueue
  \/ \E e \in inflight : RetryRequeue(e) /\ UNCHANGED restOfQueue
  \/ MetricsCleanup /\ UNCHANGED restOfQueue
  \/ Tick /\ UNCHANGED restOfQueue

\* One categorization run after another, a snapshot restore and the user,
\* all talking to one service worker.
GuardNext ==
  \/ StartAICategorization /\ UNCHANGED restOfGuard
  \/ \E b \in GuardBookmarks : MarkBookmarkAsAIMoved(b) /\ UNCHANGED restOfGuard
  \/ \E o \in FolderIds, p \in FolderIds : AIMove(o, p) /\ UNCHANGED restOfGuard
  \/ EndAICategorization /\ UNCHANGED restOfGuard
  \/ StartSnapshotRestore /\ UNCHANGED restOfGuard
  \/ EndSnapshotRestore /\ UNCHANGED restOfGuard
  \/ \E t \in timeouts : TimeoutFires(t) /\ UNCHANGED restOfGuard
  \/ \E b \in GuardBookmarks, o \in FolderIds, p \in FolderIds :
        UserMove(b, o, p) /\ UNCHANGED restOfGuard
  \/ \E i \in DOMAIN moveEvents : HandleLayers(i) /\ UNCHANGED restOfGuard
  \/ \E i \in DOMAIN moveEvents : StorageGet(i) /\ UNCHANGED restOfGuard
  \/ \E i \in DOMAIN moveEvents : HandleMarker(i) /\ UNCHANGED restOfGuard
  \/ \E i \in DOMAIN moveEvents : HandleRecord(i) /\ UNCHANGED restOfGuard
  \/ GuardTick /\ UNCHANGED restOfGuard

\* Callers of categorizeBookmarks, one call after the other.
SessionNext ==
  \/ \E apiKey \in BOOLEAN, n \in 0..MaxSessionBookmarks, size \in 1..MaxBatchSize :
        CategorizeBookmarks(apiKey, n, size) /\ UNCHANGED restOfSession
  \/ \E delivered \in BOOLEAN : NotifyStart(delivered) /\ UNCHANGED restOfSession
  \/ \E error \in SessionErrors \ {"batch failed", "Batch timeout"} :
        Prepare(error) /\ UNCHANGED restOfSession
  \/ \E error \in SessionErrors \ {"category generation failed"}, got \in 0..MaxBatchSize :
        ProcessBatch(error, got) /\ UNCHANGED restOfSession
  \/ \E delivered \in BOOLEAN : MoveResult(delivered) /\ UNCHANGED restOfSession
  \/ NextBatch /\ UNCHANGED restOfSession
  \/ \E delivered \in BOOLEAN : NotifyEndAndReturn(delivered) /\ UNCHANGED restOfSession
  \/ \E delivered \in BOOLEAN : NotifyEndAndRethrow(delivered) /\ UNCHANGED restOfSession

\* The popup and the options page sending requests to one service worker.
RequestNext ==
  \/ \E kind \in RequestKinds : StartCategorization(kind) /\ UNCHANGED restOfRequests
  \/ \E r \in DOMAIN requests, outcome \in {"success", "Categorization failed"} :
        WorkStops(r, outcome) /\ UNCHANGED restOfRequests
  \/ \E r \in DOMAIN requests : RaceTimeout(r) /\ UNCHANGED restOfRequests

vars == <<queueVars, batchVars, callVars, restOfRun>>

\* a batch is idle while the queue is explored, and the other way round
BatchIdle ==
  /\ keys = [gemini |-> FALSE, cerebras |-> FALSE, groq |-> FALSE]
  /\ batch = <<>>
  /\ allModels = <<>>
  /\ fbPc = "idle"
  /\ fbIndex = 1
  /\ fbLastError = NoError
  /\ fbCall = NoCall
  /\ fbRequested = <<>>
  /\ fbResult = NoResult
  /\ splitStack = <<>>
  /\ fbSeen = NothingSeen

Init == QueueInit /\ BatchIdle /\ CallIdle /\ RestIdle
Next == QueueNext
Spec == Init /\ [][Next]_vars
SpecPriority == Init /\ [][PriorityNext]_vars
SpecRetry == Init /\ [][RetryNext]_vars
InitBatch == QueueInit /\ BatchInit /\ CallIdle /\ RestIdle
SpecBatch == InitBatch /\ [][BatchNext]_vars
SpecRun == RunInit /\ [][RunNext]_vars
InitAgg == QueueInit /\ BatchIdle /\ CallIdle /\ AggInit /\ PureInit /\ ParseIdle /\ EntryInit /\ MetricsInit /\ GuardInit /\ SessionInit /\ RequestInit
SpecAgg == InitAgg /\ [][AggNext]_vars
SpecPure == Init /\ [][PureNext]_vars
InitParse == QueueInit /\ BatchIdle /\ CallIdle /\ AggInit /\ PureInit /\ ParseInit /\ EntryInit /\ MetricsInit /\ GuardInit /\ SessionInit /\ RequestInit
SpecParse == InitParse /\ [][ParseNext]_vars
SpecEntry == Init /\ [][EntryNext]_vars
SpecMetrics == Init /\ [][MetricsNext]_vars
SpecGetMetrics == Init /\ [][GetMetricsNext]_vars
SpecRequeue == Init /\ [][RequeueNext]_vars
SpecStatus == StatusInit /\ [][StatusNext]_vars
SpecCapacity == Init /\ [][CapacityNext]_vars
SpecBreaker == Init /\ [][BreakerNext]_vars
SpecGuard == Init /\ [][GuardNext]_vars
SpecSession == Init /\ [][SessionNext]_vars
SpecRequests == Init /\ [][RequestNext]_vars

\* ------------------------------------------------------------------ claims
Running == {e \in inflight : e.stage = "running"}
QueuedOf(provider) == {i \in DOMAIN queue : items[queue[i]].provider = provider}
NoneInvoked == \A i \in DOMAIN items : items[i].invoked = 0

\* C1: whenever a thunk is invoked, its item is the best of the waiting ones:
\* no other queued item has a strictly higher priority (high before normal
\* before low), and none of equal priority was submitted earlier.  In
\* particular the first thunk invoked after enqueue(low), enqueue(high),
\* enqueue(normal) is the high one.
C1_PriorityOrder ==
  [][\A i \in DOMAIN items :
        items'[i].invoked > items[i].invoked =>
          \A k \in DOMAIN queue :
             LET j == queue[k] IN
             j # i =>
               \/ priorities(items[i].priorityName) < priorities(items[j].priorityName)
               \/ /\ priorities(items[i].priorityName) = priorities(items[j].priorityName)
                  /\ i < j]_vars

\* C2: a thunk that always throws a retryable error is invoked at most
\* maxRetries + 1 times, and its promise is rejected after exactly that many
\* invocations, with the thunk's last error.
C2_RetryBound ==
  \A i \in DOMAIN items :
     items[i].request = "e503" =>
       /\ items[i].invoked <= maxRetries + 1
       /\ items[i].promise = "rejected" =>
            /\ items[i].invoked = maxRetries + 1
            /\ items[i].error = ThunkError("e503")

\* C3: a thunk that throws a non-retryable error is invoked exactly once: it
\* is never waiting for a backoff delay, never counted as retried, and its
\* promise is rejected after that single invocation.
C3_NonRetryableOnce ==
  \A i \in DOMAIN items :
     items[i].request = "e401" =>
       /\ items[i].invoked <= 1
       /\ items[i].retries = 0
       /\ \A e \in inflight : e.id = i => e.stage = "running"
       /\ items[i].promise = "rejected" => items[i].invoked = 1

\* C4: the queue is single-flight: at most one item is executing (thunk
\* invoked, not yet settled) at any time.
C4_SingleFlight == Cardinality(Running) <= 1

\* C5: the admission check of provider p answers no exactly when the window
\* holds rpm(p) or more timestamps of p; when an item is admitted the window
\* holds at most rpm(p) of them; and a provider whose window is at capacity
\* is refused with a positive delay until the next admission.
C5_AdmissionWithinRpm ==
  /\ loop.pc = "gap" =>
       LET p == items[loop.item].provider IN
       /\ loop.ok <=> loop.seen < rateLimits(p).rpm
       /\ loop.ok => Cardinality(RecentRequests(requestHistory, p, now))
                        <= rateLimits(p).rpm
  /\ \A p \in Providers :
       Cardinality(RecentRequests(requestHistory, p, now)) >= rateLimits(p).rpm =>
         /\ ~CanProcessRequest(requestHistory, p, now)
         /\ CalculateThrottleDelay(requestHistory, p, now) > 0

\* C5 witness: a completed request filled gemini's window and the loop, having
\* refused the next gemini item, sleeps for the throttle delay.
C5_Witness ==
  /\ Cardinality(RecentRequests(requestHistory, "gemini", now)) >= rateLimits("gemini").rpm
  /\ loop.pc = "sleep"
  /\ items[loop.item].provider = "gemini"
  /\ loop.wake > now

\* C6: an enqueue for provider p made while p's queue is at maxQueueSize(p)
\* is refused: nothing is appended, no thunk is invoked and totalRequests
\* stays; only the throttled counters move.
C6_CapacityRejects ==
  [][/\ \A p \in Providers :
          Cardinality(QueuedOf(p)) >= rateLimits(p).maxQueueSize =>
            ~(\E i \in DOMAIN items' : i \notin DOMAIN items /\ items'[i].provider = p)
     /\ metrics'.throttledRequests > metrics.throttledRequests =>
          /\ queue' = queue /\ items' = items /\ inflight' = inflight
          /\ metrics'.totalRequests = metrics.totalRequests
          /\ metrics'.retriedRequests = metrics.retriedRequests]_vars

\* C6 witness: gemini's queue is full and an enqueue has been refused.
C6_Witness ==
  /\ Cardinality(QueuedOf("gemini")) >= rateLimits("gemini").maxQueueSize
  /\ metrics.throttled["gemini"] > 0

\* the orchestrator threw its own error, not one of the split path
Exhausted ==
  /\ fbPc = "failed"
  /\ fbResult.kind = "thrown"
  /\ fbResult.message # <<>>
  /\ fbResult.message[1] = "All AI providers exhausted. Last error: "
SplitTaken == fbLastError.isTruncation /\ Len(batch) > 1
Ceil2(n) == n - (n \div 2)
FirstPart(b) == SubSeq(b, 1, Ceil2(Len(b)))
Remainder(b) == SubSeq(b, Ceil2(Len(b)) + 1, Len(b))
PartAt(b, i) == IF i = 0 THEN FirstPart(b) ELSE Remainder(b)

\* C7: when the orchestrator gives up after every candidate failed with a
\* retryable error, it has requested every candidate exactly once, in the
\* order of the list sorted by size (largest first), and the error it throws
\* ends with the message of the failure of the last candidate.
C7_ExhaustionNamesLast ==
  (Exhausted /\ fbSeen.onlyRetryable /\ Len(allModels) > 0) =>
     LET n == Len(allModels) IN
     /\ fbRequested = [k \in 1..n |-> [name |-> allModels[k].name,
                                        provider |-> allModels[k].provider]]
     /\ \A a, b \in 1..n : a < b => ModelSize(allModels[a]) >= ModelSize(allModels[b])
     /\ fbLastError.origin = n
     /\ fbSeen.thrown.origin = n
     /\ fbResult.kind = "thrown"
     /\ fbResult.message = <<"All AI providers exhausted. Last error: ">>
                             \o CandidateMessage(allModels[n].provider, fbSeen.thrown.kind)

\* C7 witness: three or more candidates were configured, each was requested
\* and failed with a retryable error, and the orchestrator has thrown.
C7_Witness ==
  /\ Exhausted
  /\ fbSeen.onlyRetryable
  /\ Len(allModels) >= 3
  /\ Len(fbRequested) = Len(allModels)

\* C8: once a candidate has failed with an authorization or format error
\* (401, 403, 400), no later candidate is requested for the batch, and the
\* orchestrator ends by throwing that error.
C8_AuthErrorAborts ==
  fbLastError.kind \in AuthKinds =>
     /\ Len(fbRequested) = fbLastError.origin
     /\ fbPc \in {"done", "failed"} =>
          /\ fbResult.kind = "thrown"
          /\ fbResult.message = fbLastError.message

\* C9: once a candidate has returned parsed results for the batch, the
\* orchestrator has returned exactly these results, and no candidate after
\* that one has been requested.
C9_FirstSuccessReturns ==
  fbSeen.okAt # 0 =>
     /\ fbPc = "done"
     /\ fbResult = [kind |-> "returned", results |-> fbSeen.okResult, message |-> <<>>]
     /\ Len(fbRequested) = fbSeen.okAt
     /\ fbCall = NoCall

\* C9 witness: the second or a later candidate succeeded while further
\* candidates remained, and the orchestrator has returned.
C9_Witness ==
  /\ fbSeen.okAt >= 2
  /\ fbSeen.okAt < Len(allModels)
  /\ fbPc = "done"
  /\ Len(fbSeen.okResult) > 0

\* C10: after a truncation error on a batch of more than one item the batch
\* is split and no other candidate is requested; every batch being split has
\* more than one item and is cut into its first ceil(n/2) items and the rest;
\* every part goes to the model that truncated; a part that is split again is
\* a part of its parent, non-empty and strictly smaller; and the results
\* returned are those of the parts, in the order of the original batch.
C10_SplitInHalves ==
  /\ SplitTaken =>
       /\ fbPc \in {"s_wait", "s_delay", "done", "failed"}
       /\ Len(fbRequested) = fbLastError.origin
  /\ \A k \in DOMAIN splitStack :
       LET f == splitStack[k] IN
       /\ Len(f.batch) > 1
       /\ f.i \in {0, Ceil2(Len(f.batch))}
       /\ f.model = allModels[fbIndex]
       /\ k = 1 => f.batch = batch
       /\ k > 1 => /\ f.batch = PartAt(splitStack[k - 1].batch, splitStack[k - 1].i)
                   /\ Len(f.batch) < Len(splitStack[k - 1].batch)
  /\ fbPc = "s_wait" =>
       LET f == splitStack[Len(splitStack)] IN
       /\ fbCall = [model |-> allModels[fbIndex].name,
                    provider |-> allModels[fbIndex].provider,
                    batch |-> PartAt(f.batch, f.i)]
       /\ fbCall.batch # <<>>
  /\ (fbPc = "done" /\ SplitTaken) =>
       LET r == fbResult.results IN
       /\ fbResult.kind = "returned"
       /\ \A a, b \in DOMAIN r : a < b => r[a] < r[b]
       /\ {r[a] : a \in DOMAIN r} = fbSeen.returned

\* C10 witness: the first part of a batch of three truncated again and was
\* split in turn; its own first part is done and its remainder is requested.
C10_Witness ==
  /\ Len(splitStack) = 2
  /\ Len(batch) = 3
  /\ fbPc = "s_wait"
  /\ splitStack[2].i > 0
  /\ Len(splitStack[2].results) = 1

\* C11: every HTTP request of the fallback sequence is sent by a thunk the
\* RequestQueue executes, so the queue's per-provider request counters account
\* for every fetch; and when, with only a Gemini key, the first candidate
\* fails with 503 and the second succeeds, the orchestrator returns the
\* mapped results and the queue has counted at least 2 gemini requests and no
\* retried request.
C11_RequestsThroughQueue ==
  /\ \A p \in Providers : fetches[p] = metrics.requests[p]
  /\ ( /\ keys = [gemini |-> TRUE, cerebras |-> FALSE, groq |-> FALSE]
       /\ fbPc = "done"
       /\ fbSeen.okAt = 2
       /\ fbLastError.kind = "e503"
       /\ fbLastError.origin = 1 ) =>
         /\ fbResult = [kind |-> "returned", results |-> fbSeen.okResult, message |-> <<>>]
         /\ metrics.requests["gemini"] >= 2
         /\ metrics.retriedRequests = 0

\* C12: an add of a key that has no record returns true and stores a record
\* with count 1; an add of a key whose record's firstOccurrence is within
\* the window returns false, adds exactly one to the record's count, appends
\* the context and sets lastOccurrence to the time of the call, leaving
\* firstOccurrence; getSummary reports the record's count.
C12_DedupWithinWindow ==
  [][adds' = adds + 1 =>
       LET k == addReturn'.key
           c == addReturn'.context
       IN /\ k \notin DOMAIN errors =>
               /\ addReturn'.value = TRUE
               /\ errors'[k].count = 1
          /\ (k \in DOMAIN errors /\ aggClock - errors[k].firstOccurrence <= errorWindow) =>
               /\ addReturn'.value = FALSE
               /\ errors'[k].count = errors[k].count + 1
               /\ errors'[k].contexts = Append(errors[k].contexts, c)
               /\ errors'[k].lastOccurrence = aggClock
               /\ errors'[k].firstOccurrence = errors[k].firstOccurrence
          /\ \E e \in GetSummary' : e.key = k /\ e.count = errors'[k].count
          /\ \A o \in DOMAIN errors \ {k} : o \in DOMAIN errors' /\ errors'[o] = errors[o]]_vars

\* C12 witness: a key was added twice within the window, the second add at a
\* later time; it returned false and the summary shows count 2.
C12_Witness ==
  /\ addReturn.value = FALSE
  /\ addReturn.key \in DOMAIN errors
  /\ errors[addReturn.key].count = 2
  /\ errors[addReturn.key].lastOccurrence > errors[addReturn.key].firstOccurrence
  /\ aggClock - errors[addReturn.key].firstOccurrence <= errorWindow
  /\ \E e \in GetSummary : e.key = addReturn.key /\ e.count = 2

\* C13: an add of a key made when more than the window has elapsed since the
\* firstOccurrence of the key's record returns true and replaces the record
\* by a new one with count 1, whether or not a sweep has run since.
C13_ExpiredRecordReplaced ==
  [][(/\ adds' = adds + 1
      /\ addReturn'.key \in DOMAIN errors
      /\ aggClock - errors[addReturn'.key].firstOccurrence > errorWindow) =>
        /\ addReturn'.value = TRUE
        /\ errors'[addReturn'.key] = NewRecord(addReturn'.context, aggClock)]_vars

\* C14: for every retryCount >= 1 and every random draw the retry delay of
\* the queue lies in [baseDelay, maxDelay].
C14_DelayClamped ==
  (probe.fn = "calculateRetryDelay" /\ probe.retryCount >= 1)
    => (baseDelay <= probe.out /\ probe.out <= maxDelay)

RetryMarkers ==
  {"429", "rate limit", "timeout", "network", "500", "502", "503", "504",
   "econnreset", "etimedout"}

HasRetryMarker(msg) == \E i \in DOMAIN msg : ToLowerCase(msg[i]) \in RetryMarkers

\* C16: while retries remain, the retryable-error predicate is true exactly
\* for the messages holding a rate-limit marker, "timeout", "network", a 5xx
\* code or one of the codes ECONNRESET and ETIMEDOUT.
C16_RetryablePredicate ==
  (probe.fn = "shouldRetry" /\ probe.retries < maxRetries)
    => (probe.out <=> HasRetryMarker(probe.message))

\* C19: classification is first match in a fixed order (an original error
\* "401 Unauthorized" is api_key) and both ContextError implementations
\* classify the same message the same way.
C19_ClassifiedAlike ==
  probe.fn = "categorizeError"
    => /\ probe.service = probe.out
       /\ probe.originalMessage = <<"401", "Unauthorized">>
            => probe.out \in {"network", "api_key"}
       /\ (probe.message = <<"network">> /\ probe.originalMessage = <<"401">>)
            => probe.out = "network"
       /\ (probe.message = <<"invalid">> /\ probe.originalMessage = <<"forbidden">>)
            => probe.out = "permission"
       /\ (probe.message = <<"timeout">> /\ probe.originalMessage = <<"503">>)
            => probe.out = "timeout"

\* the objects of the response that the cut left whole
CompleteObjects(r) ==
  LET kept == Len(ArrayText(r.objects)) - r.cut
      whole == {k \in DOMAIN r.objects : EndOf(r.objects, k) <= kept}
  IN SubSeq(r.objects, 1, Max(whole))

HoldsOther(category) == \E i \in DOMAIN category : category[i] = "Other"

ForbiddenOrMissing(o) ==
  ~o.hasCategory \/ HoldsOther(o.category) \/ Trim(o.category) = <<>>

ForbiddenThrown ==
  /\ parsed.kind = "thrown"
  /\ parsed.message[2] = "AI returned forbidden \"Other\" categories despite explicit instructions"

\* C17: every result the parser returns has a non-empty category that is
\* not "Other"; an element whose category is forbidden or missing comes back
\* with the default category, and the parse does not fail because of it.
C17_NoForbiddenCategory ==
  /\ ~ForbiddenThrown
  /\ parsed.kind = "ok" =>
       \A i \in DOMAIN parsed.results :
         /\ Trim(parsed.results[i].category) # <<>>
         /\ ~HoldsOther(parsed.results[i].category)
         /\ ForbiddenOrMissing(response.objects[i])
              => parsed.results[i].category = defaultCategory

C17_Witness ==
  /\ parsed.kind = "ok"
  /\ response.objects[1].hasCategory
  /\ response.objects[1].category = <<"Other">>
  /\ Len(response.objects) = 2
  /\ ~response.objects[2].hasCategory
  /\ response.cut = 0
  /\ parsed.results[1].category = defaultCategory
  /\ parsed.results[2].category = defaultCategory

\* the results that stand for the given objects
ResultsOf(objects) ==
  [i \in DOMAIN objects |->
     [id |-> i,
      category |-> IF ForbiddenOrMissing(objects[i]) THEN defaultCategory
                   ELSE objects[i].category,
      title |-> objects[i].title]]

\* C18: a well-formed array text is parsed into the data it denotes, and
\* the same text less N trailing characters, with at least one complete
\* leading object left, is repaired without an exception into exactly the
\* complete leading objects.
C18_ParseRoundTrip ==
  parsed.kind # "none"
    => /\ parsed.kind = "ok"
       /\ parsed.results = ResultsOf(CompleteObjects(response))

Classified(error) ==
  /\ error.class = "ContextError"
  /\ error.errorType # ""
  /\ error.userMessage # ""
  /\ error.recoverySteps > 0

IsError(value) == value.class \in {"Error", "ContextError"}

\* C20: every terminal error that reaches the caller of the fallback
\* orchestrator or of categorizeAllBookmarks is a classified error with a
\* classification, a user-facing message and recovery steps, never a bare Error.
C20_TerminalErrorsClassified ==
  /\ IsError(received) => Classified(received)
  /\ IsError(orchestratorThrew) => Classified(orchestratorThrew)

\* C21: getMetrics mutates nothing: the queue, the request history, the
\* cumulative counters and the stored per-provider requests-per-minute values
\* are the same after the call as before it.
C21_GetMetricsReadsOnly ==
  [][getCalls' # getCalls
       => /\ UNCHANGED <<queue, items, requestHistory, metrics>>
          /\ \A p \in Providers :
               RpmGet(requestsPerMinute', p) = RpmGet(requestsPerMinute, p)]_vars

\* C21 as amended: getMetrics leaves the queue, the request history and the
\* cumulative counters unchanged; the only state it writes is the stored
\* requests-per-minute values, which become the counts of the last minute.
C21_GetMetricsWritesRpmOnly ==
  [][getCalls' # getCalls
       => /\ UNCHANGED <<now, queue, items, processing, loop, inflight,
                         requestHistory, metrics>>
          /\ \A p \in Providers :
               RpmGet(requestsPerMinute', p)
                 = Cardinality(RecentRequests(requestHistory, p, now))]_vars

C21_Witness ==
  /\ getCalls > 0
  /\ requestHistory # <<>>
  /\ metrics.successfulRequests = 1
  /\ RpmGet(requestsPerMinute, "gemini") = 0
  /\ metricsReturn.rpm["gemini"] = 0

\* C22: clearMetrics resets the cumulative counters and the request
\* histories and nothing else: queue and pending promises are unchanged, and
\* every queued item is dispatched afterwards as it would have been without
\* the call.
C22_ClearMetricsFrame ==
  [][clearCalls' # clearCalls
       => /\ UNCHANGED <<queue, items, inflight, processing, loop>>
          /\ metrics'.totalRequests = 0 /\ metrics'.successfulRequests = 0
          /\ requestHistory' = <<>>
          /\ \A i \in DOMAIN queue :
               CanProcessRequest(requestHistory', items[queue[i]].provider, now)
                 = CanProcessRequest(requestHistory, items[queue[i]].provider, now)]_vars

\* C23: once a provider has accumulated failureThreshold failures over at
\* least volumeThreshold requests its circuit is open, and until the timeout
\* has elapsed (the clock stands still here) no thunk of an item of that
\* provider is invoked.
C23_OpenCircuitBlocks ==
  [][\A id \in DOMAIN items :
       (/\ metrics.failed[items[id].provider] >= failureThreshold
        /\ metrics.requests[items[id].provider] >= volumeThreshold)
       => items'[id].invoked = items[id].invoked]_vars

\* the processing flag is set exactly while one activation of the drain loop
\* is suspended at one of its awaits
LoopFlagExact == processing' = (loop'.pc # "idle")

\* a step of a caller or of a request, not of the drain loop itself
OutsideLoop == Len(items') > Len(items) \/ ~(inflight \subseteq inflight')

\* while the loop is active, calls of enqueue and of _executeRequest's final
\* _processQueue() leave the loop where it is and dispatch nothing; the
\* enqueued item is in the queue afterwards
ActiveLoopNotReentered ==
  (processing /\ OutsideLoop) =>
     /\ loop' = loop
     /\ processing'
     /\ \A id \in DOMAIN items : items'[id].invoked = items[id].invoked
     /\ Len(items') > Len(items) => \E i \in DOMAIN queue' : queue'[i] = Len(items')

\* an item leaves the queue only by being dispatched
QueuedItemsPickedUp ==
  \A id \in DOMAIN items :
    ((\E i \in DOMAIN queue : queue[i] = id) /\ ~(\E i \in DOMAIN queue' : queue'[i] = id))
      => items'[id].invoked = items[id].invoked + 1

\* C24: at most one drain loop is active at any time; a call that would
\* start it while it runs returns without dispatching, an enqueue made while
\* it is active only appends, and the active loop later picks that item up.
C24_SingleDrainLoop ==
  [][LoopFlagExact /\ ActiveLoopNotReentered /\ QueuedItemsPickedUp]_vars

\* the items whose thunk this step invokes
Dispatched == {id \in DOMAIN items : items'[id].invoked > items[id].invoked}

\* C25: only the current head of the queue is ever dispatched; while the
\* loop is suspended on a head that is not admissible nothing is dispatched,
\* neither a lower-priority item nor an item of another provider behind it.
C25_OnlyHeadDispatched ==
  [][/\ \A id \in Dispatched : queue # <<>> /\ queue[1] = id
     /\ loop.pc = "sleep" => Dispatched = {}]_vars

\* the item waits in the queue for another attempt
QueuedForRetry(id) == items[id].retries > 0 /\ \E i \in DOMAIN queue : queue[i] = id

\* the item waits for its backoff delay to run
InBackoff(id) == \E e \in inflight : e.id = id /\ e.stage = "backoff"

\* the backoff delays that end in this step
Requeued == {e \in inflight : e.stage = "backoff" /\ e \notin inflight'}

\* an item enqueued after id with id's priority is dispatched in this step
LaterPeerDispatched(id) ==
  \E j \in Dispatched : j > id /\ items[j].priority = items[id].priority

\* the same, for an item that is not itself being retried
LaterFreshPeerDispatched(id) ==
  \E j \in Dispatched : /\ j > id /\ items[j].priority = items[id].priority
                         /\ items[j].retries = 0

RequeuedAtFront ==
  \A e \in Requeued : /\ queue' = <<e.id>> \o queue
                       /\ items'[e.id].priority = items[e.id].priority

SameRequestAgain ==
  /\ call.pc = "backoff"
  /\ call'.pc = "queued"
  /\ fbCall' = fbCall
  /\ Len(items') = Len(items) + 1

\* C27: a truncated response is handled only by splitting: after a
\* truncation error for a batch the same unchanged batch is not requested
\* again from the same model.
C27_TruncationNeverRetried ==
  [][call.error = "truncated" => ~SameRequestAgain]_vars

\* the known models in the order the lists are written, and a model's place
KnownModels == geminiModels \o cerebrasModels \o groqModels
ListPlace(m) == CHOOSE k \in DOMAIN KnownModels : KnownModels[k] = m

\* C28: the candidate list holds exactly the known models of the providers
\* with a credential, by non-increasing capability weight, models of equal
\* weight in their original list order.
C28_CandidateList ==
  fbPc # "start" =>
    /\ \A k \in DOMAIN KnownModels :
         keys[KnownModels[k].provider] <=>
           Cardinality({i \in DOMAIN allModels : allModels[i] = KnownModels[k]}) = 1
    /\ \A i \in DOMAIN allModels :
         \E k \in DOMAIN KnownModels : allModels[i] = KnownModels[k]
    /\ \A i, j \in DOMAIN allModels :
         i < j => \/ ModelSize(allModels[i]) > ModelSize(allModels[j])
                  \/ /\ ModelSize(allModels[i]) = ModelSize(allModels[j])
                     /\ ListPlace(allModels[i]) < ListPlace(allModels[j])

\* all three providers have a key: the two 120b models follow gemini-2.5-pro
\* in list order, and the 10-weight gemini models precede the 8b models
C28_Witness ==
  /\ fbPc # "start"
  /\ keys.gemini /\ keys.cerebras /\ keys.groq
  /\ Len(allModels) = 16
  /\ allModels[2].provider = "cerebras" /\ allModels[3].provider = "groq"
  /\ allModels[14].provider = "gemini" /\ allModels[15].provider = "cerebras"

\* the orchestrator catches a retryable failure of the candidate it awaits
RetryableFailureCaught ==
  /\ fbPc = "wait"
  /\ fbLastError' # fbLastError
  /\ fbLastError'.kind \in RetryableKinds

\* the failure is recorded as that candidate's, and when candidates remain
\* the orchestrator waits for the inter-attempt delay and then calls the next
NextCandidateAfterDelay ==
  /\ RetryableFailureCaught =>
       /\ fbLastError'.origin = fbIndex
       /\ fbIndex < Len(allModels) => fbPc' = "delay" /\ fbCall' = NoCall
  /\ (fbPc = "delay" /\ fbPc' # "delay") =>
       /\ fbIndex' = fbIndex + 1
       /\ fbCall' = CallOf(allModels[fbIndex + 1], batch)

Expired(t) == {k \in DOMAIN errors : t - errors[k].firstOccurrence > errorWindow}

\* C30: each sweep removes exactly the records with now - firstOccurrence >
\* window, however recently lastOccurrence advanced, and leaves the others
\* untouched; so an add that still returns false for a recurring key is made
\* no later than window plus one sweep interval after firstOccurrence.
C30_BoundedSilence ==
  [][/\ nextSweep' # nextSweep =>
          /\ DOMAIN errors' = DOMAIN errors \ Expired(aggClock)
          /\ \A k \in DOMAIN errors' : errors'[k] = errors[k]
     /\ (adds' = adds + 1 /\ addReturn'.value = FALSE) =>
          aggClock - errors[addReturn'.key].firstOccurrence
            <= errorWindow + cleanupInterval]_vars

\* a record whose lastOccurrence had just advanced, at the latest moment a
\* duplicate can be silenced, has been swept
C30_Witness ==
  /\ addReturn.value = FALSE
  /\ addReturn.key \notin DOMAIN errors
  /\ aggClock = errorWindow + cleanupInterval
  /\ nextSweep > aggClock
  /\ adds = 2

\* the item is in the queue, or one of its attempts is running or backing off
Held(id) == (\E i \in DOMAIN queue : queue[i] = id) \/ (\E e \in inflight : e.id = id)

\* C31: every accepted request is eventually dispatched and its promise
\* settled.  What a finite run can refute: no accepted item waits in the
\* queue with no active drain loop, and none whose promise is still pending
\* has disappeared from the queue and from the running requests (nothing
\* would ever settle it).
C31_NoRequestLost ==
  /\ queue # <<>> => processing
  /\ \A id \in DOMAIN items : items[id].promise = "pending" => Held(id)

InQueue(q, id) == \E i \in DOMAIN q : q[i] = id

\* C32: the item the loop removes from the queue is the item it dispatches,
\* also when an enqueue or a retry re-insertion runs between the peek and the
\* dequeue: no item leaves the queue unexecuted, none is executed while still
\* queued, and no thunk is invoked twice for one attempt.
C32_DequeuedIsDispatched ==
  [][\A id \in DOMAIN items :
       /\ (InQueue(queue, id) /\ ~InQueue(queue', id)) => id \in Dispatched
       /\ id \in Dispatched => ~InQueue(queue', id)
       /\ items'[id].invoked <= items'[id].retries + 1]_vars

\* thunk invocations made so far for a provider, over the first n items
RECURSIVE InvokedFor(_, _)
InvokedFor(provider, n) ==
  IF n = 0 THEN 0
  ELSE InvokedFor(provider, n - 1)
       + (IF items[n].provider = provider THEN items[n].invoked ELSE 0)

\* C33: in every window of 60000 ms at most rpm(p) thunks are invoked for
\* provider p, counting every dispatched attempt.  Checked on the window that
\* starts with the queue: until the clock passes 60000 ms every invocation
\* made so far lies in it.
C33_DispatchWithinRpm ==
  now <= WindowMs =>
    \A p \in Providers : InvokedFor(p, Len(items)) <= rateLimits(p).rpm

\* C34: in every reachable state the queue holds at most maxQueueSize(p)
\* items of provider p, items put back for a retry included.
C34_QueueWithinCapacity ==
  \A p \in Providers : Cardinality(QueuedOf(p)) <= rateLimits(p).maxQueueSize

\* C35: an enqueue for provider p is rejected for capacity only if at least
\* maxQueueSize(p) items of p are queued; items of other providers never
\* cause the rejection.
C35_RejectedOnlyByOwnItems ==
  [][\A p \in Providers :
       metrics'.throttled[p] > metrics.throttled[p] =>
         Cardinality(QueuedOf(p)) >= rateLimits(p).maxQueueSize]_vars

\* C36: a successful result for a batch (categorizeBookmarks takes a returned,
\* non-empty array as one) has exactly one entry per bookmark, in batch
\* order, entry i carrying bookmarkId = batch[i].id; a response with fewer or
\* more elements than the batch is not returned as a success.
C36_OneEntryPerBookmark ==
  (fbResult.kind = "returned" /\ fbResult.results # <<>>) =>
    /\ Len(fbResult.results) = Len(batch)
    /\ \A i \in DOMAIN batch : fbResult.results[i] = batch[i]

\* C37: a move made by the categorization run, whose bookmark was marked as
\* AI-moved before the move, is never handed to the learning service as a
\* correction of the user, however its event interleaves with
\* endAICategorization, later start messages and the cleanup callbacks.
C37_AIMoveNeverLearned == \A c \in learned : ~c.ai

\* C38: between the handling of startAICategorization and the handling of
\* the matching endAICategorization the move listener stays unregistered,
\* aiCategorizedBookmarks holds every bookmark marked during the run and
\* aiCategorizationStartTime stays set, also when a callback left by an
\* earlier endAICategorization or endSnapshotRestore runs meanwhile.
C38_RunStateKept ==
  aiRun.pc # "idle" =>
    /\ ~listening
    /\ aiRun.marked \subseteq aiCategorizedBookmarks
    /\ aiCategorizationStartTime # NoTime

\* C39: a call of categorizeBookmarks that sends startAICategorization sends
\* endAICategorization exactly once before it returns or throws, on the
\* success path and on every failure path; a call that fails before the
\* start message sends neither; no end message precedes the start message
\* or is sent while the call is still working.
EndFollowsStart ==
  \A k \in DOMAIN sent :
     sent[k].action = "endAICategorization" =>
       /\ k = Len(sent)
       /\ sent[1].action = "startAICategorization"
       /\ session.pc = "done"
C39_StartMatchedByOneEnd ==
  /\ Sent("startAICategorization") <= 1
  /\ EndFollowsStart
  /\ session.pc = "done" => Sent("endAICategorization") = Sent("startAICategorization")
C39_Witness ==
  /\ session.pc = "done"
  /\ session.outcome = "thrown"
  /\ session.error = "Batch timeout"
  /\ session.i > 0
  /\ Sent("markBookmarkAsAIMoved") > 0
  /\ Sent("startAICategorization") = 1
  /\ Sent("endAICategorization") = 1

\* C40: at most one categorization run works on the bookmarks at any time:
\* a categorizeAllBookmarks or categorizeBulkBookmarks request made while the
\* work of an earlier run is still executing, also of a run whose caller gave
\* up on the timeout, is rejected with "Categorization already in progress",
\* and the in-progress flag is cleared only once the work has stopped.
OverlappingRejected ==
  \A r \in DOMAIN requests :
     requests[r].overlaps => requests[r].response = "Categorization already in progress"
FlagCoversWork == \A r \in Working : requests[r].isProcessing
C40_OneRunAtATime ==
  /\ Cardinality(Working) <= 1
  /\ OverlappingRejected
  /\ FlagCoversWork
====
